---- MODULE Spec2Model ----
(***************************************************************************)
(* Verification model of the Greenwashing-Detection client.                *)
(*                                                                         *)
(*  - the Chat page (v2/src/pages/Chat.tsx): handleSend, its streaming     *)
(*    loop and the React state it drives;                                  *)
(*  - the report page (v2/src/pages/Company.tsx): extractSection, the       *)
(*    executive summary, the evidence groups, score and breakdown from     *)
(*    graphdata, the synthesis text, and the source of the view (live      *)
(*    report, cached report, mock);                                        *)
(*  - the chat container's scroll hook useChatScroll;                      *)
(*  - the read loops of the two stream readers;                            *)
(*  - FloatingChatbot (both variants): history load and handleSend;        *)
(*  - the preface sanitizer of specification section 4.3;                  *)
(*  - the chat handlers of docs/web (useChat, ChatInterface, ExplainableAI, *)
(*    UploadForm): upload, validation and handleSend;                      *)
(*  - the Upload page with the FloatingChatbot it embeds and the           *)
(*    localStorage entry lastSessionId;                                    *)
(*  - the dashboard load of the Index page.                                *)
(*                                                                         *)
(* Each area has its own specification; the variables of the other areas   *)
(* stay at their idle values.                                              *)
(*                                                                         *)
(* Strings are sequences of one-character strings, so that the regular     *)
(* expressions of the source are evaluated position by position.           *)
(***************************************************************************)
EXTENDS Integers, Sequences, FiniteSets, TLC

VARIABLES
    messages,        \* Chat.tsx:8   useState<Message[]>([])
    currentMessage,  \* Chat.tsx:9   useState<string | null>(null)
    input,           \* Chat.tsx:10  useState("")
    sendingMessage,  \* Chat.tsx:11  useState(false)
    rSending,        \* sendingMessage as captured by the rendered handleSend closure
    calls,           \* the handleSend invocations that passed the guard, in order
    bytesSent,       \* number of bytes the streams have delivered so far
    exDoc,           \* extractSection: the pieces the argument text is made of
    exKind,          \* extractSection: the JavaScript type of the argument text
    exN,             \* extractSection: argument sectionNumber
    exOut,           \* extractSection: outcome of the call
    syn,             \* Company view.summary: pieces of apiRes.data.final_synthesis
    synKind,         \* Company view.summary: the JavaScript type of final_synthesis
    synSummary,      \* Company view.summary: whether apiRes.data.summary is present
    synOut,          \* Company view.summary: outcome
    evDoc,           \* Company view.evidenceGroups: pieces of apiRes.data.final_synthesis
    evOut,           \* Company view.evidenceGroups: outcome
    scMessages,      \* useChatScroll: roles of the messages prop of the last render
    scCurrent,       \* useChatScroll: the currentMessage prop of the last render
    scLast,          \* useChatScroll: what the last run of the effect scheduled
    scCount,         \* useChatScroll: number of scroll motions scheduled so far
    dcReader,        \* stream readers: which component reads the stream
    dcBytes,         \* stream readers: the bytes the stream has delivered
    dcPending,       \* stream readers: the state the decoder keeps between calls
    dcAcc,           \* stream readers: the text accumulated from the chunks
    dcDone,          \* stream readers: the stream has ended
    gdDoc,           \* Company view.score/breakdown: pieces of the text apiRes.data.graphdata
    gdOverall,       \* Company view.score/breakdown: apiRes.data.overall_score
    gdApiBreakdown,  \* Company view.score/breakdown: whether apiRes.data.breakdown is present
    gdOut,           \* Company view.score/breakdown: outcome
    rpId,            \* Company: the session id of the route (useParams)
    rpCache,         \* Company: localStorage entries report:<id>
    rpQuery,         \* Company: state of the live lookup useQuery(["report", id])
    rpView,          \* Company: outcome of the last render
    fcVariant,       \* FloatingChatbot: "api" (FloatingChatbot.tsx) or "stream" (part_003)
    fcSession,       \* FloatingChatbot: whether sessionId || lastSessionId names a session
    fcOpen,          \* FloatingChatbot: useState isOpen
    fcMessages,      \* FloatingChatbot: useState messages
    fcInput,         \* FloatingChatbot: useState input
    fcLoading,       \* FloatingChatbot: useState isLoading
    fcLoads,         \* FloatingChatbot: getConversation calls not yet settled
    fcToast,         \* FloatingChatbot: the connectionFailed toast was shown
    lcMap,           \* Company view.final_synthesis: locales with an entry in final_synthesis_i18n
    lcReq,           \* Company view.final_synthesis: the locale the user asked for
    lcLegacy,        \* Company view.final_synthesis: whether apiRes.data.final_synthesis is present
    lcResponse,      \* Company view.final_synthesis: whether apiRes.data.response is present
    lcOut,           \* Company view.final_synthesis: outcome
    psDoc,           \* PrefaceSanitizer: the lines of the document D
    psOnce,          \* PrefaceSanitizer: PrefaceSanitizer(D)
    psTwice,         \* PrefaceSanitizer: PrefaceSanitizer(PrefaceSanitizer(D))
    dwHandler,       \* docs/web chat: which component's handlers run
    dw,              \* docs/web chat: the component's useState values and its handlers' positions
    up,              \* Upload: the page's useState values, its timers, its route
    lastSessionId,   \* localStorage entry lastSessionId
    cb,              \* Upload's FloatingChatbot: its useState values and the messages posted
    db               \* Index: the dashboard's useState values and the position of its load

vars == <<messages, currentMessage, input, sendingMessage, rSending, calls,
          bytesSent, exDoc, exKind, exN, exOut, syn, synKind,
          synSummary, synOut, evDoc, evOut, scMessages, scCurrent, scLast, scCount,
          dcReader, dcBytes, dcPending, dcAcc, dcDone,
          gdDoc, gdOverall, gdApiBreakdown, gdOut,
          rpId, rpCache, rpQuery, rpView,
          fcVariant, fcSession, fcOpen, fcMessages, fcInput, fcLoading, fcLoads, fcToast,
          lcMap, lcReq, lcLegacy, lcResponse, lcOut,
          psDoc, psOnce, psTwice,
          dwHandler, dw, up, lastSessionId, cb, db>>

chatVars == <<messages, currentMessage, input, sendingMessage, rSending, calls, bytesSent>>
exVars == <<exDoc, exKind, exN, exOut>>
synVars == <<syn, synKind, synSummary, synOut>>
evVars == <<evDoc, evOut>>
scVars == <<scMessages, scCurrent, scLast, scCount>>
dcVars == <<dcReader, dcBytes, dcPending, dcAcc, dcDone>>
gdVars == <<gdDoc, gdOverall, gdApiBreakdown, gdOut>>
rpVars == <<rpId, rpCache, rpQuery, rpView>>
fcVars == <<fcVariant, fcSession, fcOpen, fcMessages, fcInput, fcLoading, fcLoads, fcToast>>
lcVars == <<lcMap, lcReq, lcLegacy, lcResponse, lcOut>>
psVars == <<psDoc, psOnce, psTwice>>
dwVars == <<dwHandler, dw>>
upVars == <<up, lastSessionId, cb>>
dbVars == <<db>>

\* every area but the one a step belongs to is left alone
Frame(area) ==
    /\ IF area = "chat" THEN TRUE ELSE UNCHANGED chatVars
    /\ IF area = "ex" THEN TRUE ELSE UNCHANGED exVars
    /\ IF area = "syn" THEN TRUE ELSE UNCHANGED synVars
    /\ IF area = "ev" THEN TRUE ELSE UNCHANGED evVars
    /\ IF area = "sc" THEN TRUE ELSE UNCHANGED scVars
    /\ IF area = "dc" THEN TRUE ELSE UNCHANGED dcVars
    /\ IF area = "gd" THEN TRUE ELSE UNCHANGED gdVars
    /\ IF area = "rp" THEN TRUE ELSE UNCHANGED rpVars
    /\ IF area = "fc" THEN TRUE ELSE UNCHANGED fcVars
    /\ IF area = "lc" THEN TRUE ELSE UNCHANGED lcVars
    /\ IF area = "ps" THEN TRUE ELSE UNCHANGED psVars
    /\ IF area = "dw" THEN TRUE ELSE UNCHANGED dwVars
    /\ IF area = "up" THEN TRUE ELSE UNCHANGED upVars
    /\ IF area = "db" THEN TRUE ELSE UNCHANGED dbVars

----------------------------------------------------------------------------
(* Bounds *)

MaxCalls == 2        \* handleSend invocations that pass the guard
MaxBytes == 2        \* bytes delivered by all streams together
MaxChunkLen == 2     \* bytes in one chunk of a stream

----------------------------------------------------------------------------
(* Generic string helpers *)

Whitespace == {" ", "\n"}

RECURSIVE SeqsUpTo(_, _)
SeqsUpTo(S, n) ==
    IF n = 0 THEN {<<>>}
    ELSE LET shorter == SeqsUpTo(S, n - 1)
         IN  shorter \cup {Append(s, x) : s \in {t \in shorter : Len(t) = n - 1}, x \in S}

RECURSIVE Flatten(_)
Flatten(ss) == IF ss = <<>> THEN <<>> ELSE Head(ss) \o Flatten(Tail(ss))

IsPrefix(s, t) == Len(s) <= Len(t) /\ SubSeq(t, 1, Len(s)) = s

\* String.prototype.trim
RECURSIVE TrimLeft(_)
TrimLeft(s) == IF s /= <<>> /\ Head(s) \in Whitespace THEN TrimLeft(Tail(s)) ELSE s

RECURSIVE TrimRight(_)
TrimRight(s) ==
    IF s /= <<>> /\ s[Len(s)] \in Whitespace THEN TrimRight(SubSeq(s, 1, Len(s) - 1)) ELSE s

Trim(s) == TrimRight(TrimLeft(s))

----------------------------------------------------------------------------
(* TextDecoder("utf-8").decode(value, {stream: true}), Chat.tsx:47,54.      *)
(* Bytes: "a" is an ASCII byte, "C3" the lead byte of a two-byte sequence, *)
(* "A9" a continuation byte.  pending = 1 when a lead byte waits for its   *)
(* continuation.                                                           *)

Bytes == {"a", "C3", "A9"}
Replacement == "FFFD"

RECURSIVE DecodeFrom(_, _, _)
DecodeFrom(pending, bytes, out) ==
    IF bytes = <<>> THEN [text |-> out, pending |-> pending]
    ELSE LET b == Head(bytes) IN
         IF pending = 0
         THEN CASE b = "a"  -> DecodeFrom(0, Tail(bytes), Append(out, "a"))
                [] b = "C3" -> DecodeFrom(1, Tail(bytes), out)
                [] OTHER    -> DecodeFrom(0, Tail(bytes), Append(out, Replacement))
         ELSE IF b = "A9"
              THEN DecodeFrom(0, Tail(bytes), Append(out, "e'"))
              ELSE DecodeFrom(0, bytes, Append(out, Replacement))

decode(pending, value) == DecodeFrom(pending, value, <<>>)

Chunks == SeqsUpTo(Bytes, MaxChunkLen) \ {<<>>}

----------------------------------------------------------------------------
(* Report page: documents.  A document is a sequence of pieces; its text   *)
(* is the concatenation of the texts of the pieces.                        *)

MaxPieces == 5       \* pieces in a document given to extractSection
MaxSection == 2      \* largest sectionNumber asked for

DigitChar(d) ==
    CASE d = 0 -> "0" [] d = 1 -> "1" [] d = 2 -> "2" [] d = 3 -> "3" [] d = 4 -> "4"
      [] d = 5 -> "5" [] d = 6 -> "6" [] d = 7 -> "7" [] d = 8 -> "8" [] d = 9 -> "9"

\* `${sectionNumber}`: the decimal numeral of a non-negative integer
RECURSIVE NumberText(_)
NumberText(n) ==
    IF n < 10 THEN <<DigitChar(n)>> ELSE Append(NumberText(n \div 10), DigitChar(n % 10))

\* a heading of the emphasis grammar: **N. <rest>**
HeadingText(n) == <<"*", "*">> \o NumberText(n) \o <<".", " ", "T", "*", "*">>

HeadingPieces == {"H1", "H2", "H3"}
Pieces == HeadingPieces \cup {"NL", "BL", "X"}

HeadingNo(p) == CASE p = "H1" -> 1 [] p = "H2" -> 2 [] p = "H3" -> 3

ExecutiveSummaryHeading ==
    <<"*", "*", "1", ".", " ", "E", "x", "e", "c", "u", "t", "i", "v", "e", " ",
      "S", "u", "m", "m", "a", "r", "y", "*", "*">>

\* the labels of the sub-blocks of a findings section, Company.tsx:254,256
QuotationLabel == <<"Q", "u", "o", "t", "a", "t", "i", "o", "n", ":">>
ExplanationLabel == <<"E", "x", "p", "l", "a", "n", "a", "t", "i", "o", "n", ":">>

PieceText(p) ==
    CASE p \in HeadingPieces -> HeadingText(HeadingNo(p))
      [] p = "NL"  -> <<"\n">>
      [] p = "BL"  -> <<"\n", "\n">>
      [] p = "X"   -> <<"x">>
      [] p = "HES" -> ExecutiveSummaryHeading
      [] p = "LONG" -> [k \in 1..101 |-> "y"]
      [] p = "Q"   -> QuotationLabel
      [] p = "E"   -> ExplanationLabel

RECURSIVE TextOf(_)
TextOf(doc) == IF doc = <<>> THEN <<>> ELSE PieceText(Head(doc)) \o TextOf(Tail(doc))

Docs == SeqsUpTo(Pieces, MaxPieces)

\* text[from..] starts with pat
StartsWithAt(text, from, pat) ==
    /\ from + Len(pat) - 1 <= Len(text)
    /\ \A k \in 1..Len(pat) : text[from + k - 1] = pat[k]

Contains(text, pat) == \E i \in 1..(Len(text) + 1) : StartsWithAt(text, i, pat)

\* the least element of a non-empty set of integers
Least(S) == CHOOSE x \in S : \A y \in S : x <= y

----------------------------------------------------------------------------
(* Report page: extractSection, Company.tsx:20-38 *)

\* JavaScript values passed as text
StringValue(chars) == [type |-> "string", chars |-> chars]
NonStrings == {"undefined", "null", "number0", "number5", "object"}
Falsy(v) ==
    \/ v.type \in {"undefined", "null", "number0"}
    \/ (v.type = "string" /\ v.chars = <<>>)

Returned(chars) == [state |-> "returned", value |-> chars]
Raised == [state |-> "raised", value |-> <<>>]
Pending == [state |-> "pending", value |-> <<>>]

\* Company.tsx:21  if (!text || typeof text !== "string") return "";
EarlyReturn_OnlyFalsy(v) == Falsy(v)
EarlyReturn(v) == Falsy(v) \/ v.type /= "string"

\* Company.tsx:25  the opening of the pattern: \*\*N\.\s
OpensAt(text, i, n) ==
    /\ StartsWithAt(text, i, <<"*", "*">> \o NumberText(n) \o <<".">>)
    /\ i + Len(NumberText(n)) + 3 <= Len(text)
    /\ text[i + Len(NumberText(n)) + 3] \in Whitespace

\* Company.tsx:25  the lookahead: \n\n\*\*(N+1)\.\s | \n\n\*\*(N+2)\.\s | $
StopsAt(text, j, n) ==
    \/ \E m \in {n + 1, n + 2} : /\ StartsWithAt(text, j, <<"\n", "\n">>)
                                 /\ OpensAt(text, j + 2, m)
    \/ j = Len(text) + 1

\* Company.tsx:24-29  text.match(regex): the leftmost opening, then the
\* shortest run of characters after which the lookahead succeeds
SectionMatch(text, n) ==
    LET starts == {i \in 1..Len(text) : OpensAt(text, i, n)}
    IN  IF starts = {} THEN [found |-> FALSE, text |-> <<>>]
        ELSE LET i == Least(starts)
                 first == i + Len(NumberText(n)) + 4
                 j == Least({k \in first..(Len(text) + 1) : StopsAt(text, k, n)})
             IN  [found |-> TRUE, text |-> SubSeq(text, i, j - 1)]

\* Company.tsx:33  .replace(/^\*\*N\..*?\*\*/, ""): the heading up to the first
\* closing ** on the same line is dropped
StripHeading(m, n) ==
    LET first == Len(NumberText(n)) + 4
        ends == {k \in first..(Len(m) - 1) :
                    /\ m[k] = "*" /\ m[k + 1] = "*"
                    /\ \A q \in first..(k - 1) : m[q] /= "\n"}
    IN  IF ends = {} THEN m ELSE SubSeq(m, Least(ends) + 2, Len(m))

\* Company.tsx:20-38
extractSection(v, n) ==
    IF EarlyReturn(v) THEN Returned(<<>>)
    ELSE IF v.type /= "string" THEN Raised   \* .match of a non-string: TypeError
    ELSE LET m == SectionMatch(v.chars, n)
         IN  IF m.found THEN Returned(Trim(StripHeading(m.text, n)))
             ELSE Returned(<<>>)

exArg == IF exKind = "string" THEN StringValue(TextOf(exDoc))
         ELSE [type |-> exKind, chars |-> <<>>]

ExIdle == exDoc = <<>> /\ exKind = "string" /\ exN = 1 /\ exOut = Pending

InitExtract ==
    /\ \/ exKind = "string" /\ exDoc \in Docs
       \/ exKind \in NonStrings /\ exDoc = <<>>
    /\ exN \in 1..MaxSection
    /\ exOut = Pending

\* the call extractSection(text, sectionNumber)
ExtractCall ==
    /\ exOut = Pending
    /\ exOut' = extractSection(exArg, exN)
    /\ UNCHANGED <<exDoc, exKind, exN>>

NextExtract == ExtractCall /\ Frame("ex")

----------------------------------------------------------------------------
(* Report page: the executive summary, Company.tsx:159-171 *)

MaxSynPieces == 4    \* pieces in a final_synthesis document
SummaryLimit == 200  \* Company.tsx:168  synthesis.substring(0, 200)

SynPieces == {"HES", "H1", "H2", "NL", "BL", "X", "LONG"}
SynDocs == SeqsUpTo(SynPieces, MaxSynPieces)

\* String.prototype.substring(0, n)
Substring0(text, n) == SubSeq(text, 1, IF Len(text) < n THEN Len(text) ELSE n)

Ellipsis == <<".", ".", ".">>
NoSummaryPlaceholder == <<"NoSummary">>   \* Company.tsx:170  the fixed placeholder text
ApiSummary == <<"s">>                     \* a value of apiRes.data.summary

\* Company.tsx:162-164  /\*\*1\. Executive Summary\*\*([\s\S]*?)(?=\n\n\*\*2\.)/
ExecSummaryMatch(text) ==
    LET stop == <<"\n", "\n", "*", "*", "2", ".">>
        hlen == Len(ExecutiveSummaryHeading)
        starts == {i \in 1..Len(text) :
                      /\ StartsWithAt(text, i, ExecutiveSummaryHeading)
                      /\ \E j \in (i + hlen)..Len(text) : StartsWithAt(text, j, stop)}
    IN  IF starts = {} THEN [found |-> FALSE, group |-> <<>>]
        ELSE LET i == Least(starts)
                 j == Least({k \in (i + hlen)..Len(text) : StartsWithAt(text, k, stop)})
             IN  [found |-> TRUE, group |-> SubSeq(text, i + hlen, j - 1)]

\* Company.tsx:159-171
summaryOf(kind, text, hasSummary) ==
    IF kind = "string" /\ text /= <<>>
    THEN LET m == ExecSummaryMatch(text)
         IN  IF m.found THEN Trim(m.group)
             ELSE Substring0(text, SummaryLimit) \o Ellipsis
    ELSE IF hasSummary THEN ApiSummary
    ELSE NoSummaryPlaceholder

SynIdle == syn = <<>> /\ synKind = "undefined" /\ synSummary = FALSE /\ synOut = Pending

InitSummary ==
    /\ \/ synKind = "string" /\ syn \in SynDocs
       \/ synKind = "undefined" /\ syn = <<>>
    /\ synSummary \in BOOLEAN
    /\ synOut = Pending

\* the evaluation of view.summary
SummaryCall ==
    /\ synOut = Pending
    /\ synOut' = Returned(summaryOf(synKind, TextOf(syn), synSummary))
    /\ UNCHANGED <<syn, synKind, synSummary>>

NextSummary == SummaryCall /\ Frame("syn")

----------------------------------------------------------------------------
(* Report page: the evidence groups, Company.tsx:203-211 *)

MaxEvPieces == 4     \* pieces in a final_synthesis document with findings

EvPieces == {"H2", "H3", "BL", "X", "Q", "E"}
EvDocs == SeqsUpTo(EvPieces, MaxEvPieces)

KeyFindingsType == "Key Findings and Evidence from Document Analysis"

EvPending == [state |-> "pending", groups |-> <<>>]

\* Company.tsx:204  extractSection(apiRes.data.final_synthesis ?? "", 2)
FindingsBody(text) == extractSection(StringValue(text), 2).value

\* Company.tsx:203-211: the whole section-2 body becomes the quote of the
\* single item of a single group; an empty body gives no group
evidenceGroups(text) ==
    LET sec2 == FindingsBody(text)
    IN  IF sec2 /= <<>>
        THEN <<[type |-> KeyFindingsType,
                items |-> <<[quote |-> Trim(sec2), why |-> <<>>]>>]>>
        ELSE <<>>

EvIdle == evDoc = <<>> /\ evOut = EvPending

InitEvidence == evDoc \in EvDocs /\ evOut = EvPending

\* the evaluation of view.evidenceGroups
EvidenceCall ==
    /\ evOut = EvPending
    /\ evOut' = [state |-> "returned", groups |-> evidenceGroups(TextOf(evDoc))]
    /\ UNCHANGED evDoc

NextEvidence == EvidenceCall /\ Frame("ev")

----------------------------------------------------------------------------
(* Chat page: values *)

Null == [null |-> TRUE, text |-> <<>>]
Some(t) == [null |-> FALSE, text |-> t]

\* what the user types: nothing, blanks only, a word, a word within blanks
Inputs == {<<>>, <<" ">>, <<"h">>, <<" ", "h", "\n">>}

Msg(role, content) == [role |-> role, content |-> content]

\* Chat.tsx:62  e?.message || "Sending failed"
ErrorText(e) == IF e = "" THEN "Sending failed" ELSE e

\* Chat.tsx:63  `Error: ${msg}`
ErrorContent(e) == <<"Error: ", ErrorText(e)>>

UnavailableMessage == "Chat API unavailable or analysis session missing, please upload a report first"

\* what fetch("/chat") settles to: a rejection with an error, or a response
Rejections == {[kind |-> "rejected", message |-> m, ok |-> FALSE, body |-> FALSE] :
                  m \in {"", "Failed to fetch"}}
Responses == {[kind |-> "response", message |-> "", ok |-> o, body |-> b] :
                  o \in BOOLEAN, b \in BOOLEAN}
ReadErrors == {"", "network error"}

InFlight(c) == c.pc \in {"fetching", "reading"}

----------------------------------------------------------------------------
(* Chat page: handleSend, Chat.tsx:28-67 *)

\* Chat.tsx:29  if (!input.trim() || sendingMessage) return;
GuardPasses_NoTrim(in, sending) == in /= <<>> /\ ~sending
GuardPasses(in, sending) == Trim(in) /= <<>> /\ ~sending

\* Chat.tsx:32  setMessages((prev) => [...prev, userMsg])
AppendUser_Replace(prev, content) == <<Msg("user", content)>>
AppendUser(prev, content) == Append(prev, Msg("user", content))

\* Chat.tsx:55-56  acc += chunk; setCurrentMessage((prev) => (prev ?? "") + chunk)
OnChunk_Overwrite(prev, chunk) == Some(chunk)
OnChunk(prev, chunk) == Some((IF prev.null THEN <<>> ELSE prev.text) \o chunk)

\* Chat.tsx:59  setMessages((prev) => [...prev, { role: "assistant", content: acc }])
AppendReply(prev, acc) == Append(prev, Msg("assistant", acc))

\* Chat.tsx:34  setSendingMessage(true)
SendingOnStart_Forgotten == FALSE
SendingOnStart == TRUE

\* Chat.tsx:62-63  the catch block
AppendError_Silent(prev, e) == prev
AppendError(prev, e) == Append(prev, Msg("assistant", ErrorContent(e)))

\* Chat.tsx:64-66  finally { setSendingMessage(false) }
Finally_OnlyOnSuccess(failed) == failed
Finally(failed) == FALSE

InitChat ==
    /\ messages = <<>>
    /\ currentMessage = Null
    /\ input = <<>>
    /\ sendingMessage = FALSE
    /\ rSending = FALSE
    /\ calls = <<>>
    /\ bytesSent = 0

\* ChatInput.tsx:20-21  onChange -> setInput(e.target.value); the textarea is
\* disabled while the rendered sendingMessage is true (ChatInput.tsx:34)
TypeInput(s) ==
    /\ ~rSending
    /\ s /= input
    /\ input' = s
    /\ rSending' = sendingMessage
    /\ UNCHANGED <<messages, currentMessage, sendingMessage, calls, bytesSent>>

\* Chat.tsx:28-34  a send attempt (click or Enter) that passes the guard: the
\* synchronous part of handleSend up to the await of fetch.  The updates are
\* made inside a discrete event, so the re-render is part of the step.
SendStart ==
    /\ GuardPasses(input, rSending)
    /\ Len(calls) < MaxCalls
    /\ messages' = AppendUser(messages, Trim(input))
    /\ input' = <<>>
    /\ sendingMessage' = SendingOnStart
    /\ rSending' = SendingOnStart
    /\ calls' = Append(calls, [pc |-> "fetching", user |-> Trim(input), acc |-> <<>>,
                              chunks |-> <<>>, pending |-> 0])
    /\ UNCHANGED <<currentMessage, bytesSent>>

\* Chat.tsx:29  a send attempt that the guard turns away
SendRejected ==
    /\ ~GuardPasses(input, rSending)
    /\ UNCHANGED chatVars

\* Chat.tsx:37-48  fetch settles with a usable response
FetchOk(i) ==
    /\ calls[i].pc = "fetching"
    /\ \E r \in Responses :
         /\ r.ok /\ r.body
         /\ currentMessage' = Some(<<>>)
         /\ calls' = [calls EXCEPT ![i].pc = "reading"]
    /\ UNCHANGED <<messages, input, sendingMessage, rSending, bytesSent>>

\* Chat.tsx:37-44,61-66  fetch rejects, or the response is not usable
FetchFail(i) ==
    /\ calls[i].pc = "fetching"
    /\ \E r \in Rejections \cup {q \in Responses : ~q.ok \/ ~q.body} :
         LET e == IF r.kind = "rejected" THEN r.message ELSE UnavailableMessage
         IN  messages' = AppendError(messages, e)
    /\ sendingMessage' = Finally(TRUE)
    /\ calls' = [calls EXCEPT ![i].pc = "failed"]
    /\ UNCHANGED <<currentMessage, input, rSending, bytesSent>>

\* Chat.tsx:52-56  reader.read() delivers a chunk
ReadChunk(i) ==
    /\ calls[i].pc = "reading"
    /\ \E value \in Chunks :
         /\ bytesSent + Len(value) <= MaxBytes
         /\ LET d == decode(calls[i].pending, value)
            IN  /\ calls' = [calls EXCEPT ![i].acc = @ \o d.text,
                                          ![i].chunks = Append(@, value),
                                          ![i].pending = d.pending]
                /\ currentMessage' = OnChunk(currentMessage, d.text)
         /\ bytesSent' = bytesSent + Len(value)
    /\ UNCHANGED <<messages, input, sendingMessage, rSending>>

\* Chat.tsx:53,59-60,64-66  reader.read() reports done
ReadDone(i) ==
    /\ calls[i].pc = "reading"
    /\ messages' = AppendReply(messages, calls[i].acc)
    /\ currentMessage' = Null
    /\ sendingMessage' = Finally(FALSE)
    /\ calls' = [calls EXCEPT ![i].pc = "done"]
    /\ UNCHANGED <<input, rSending, bytesSent>>

\* Chat.tsx:52,61-66  reader.read() rejects
ReadError_KeepPartial(i) ==
    /\ calls[i].pc = "reading"
    /\ \E e \in ReadErrors :
         messages' = AppendError(AppendReply(messages, calls[i].acc), e)
    /\ sendingMessage' = Finally(TRUE)
    /\ calls' = [calls EXCEPT ![i].pc = "failed"]
    /\ UNCHANGED <<currentMessage, input, rSending, bytesSent>>

ReadError(i) ==
    /\ calls[i].pc = "reading"
    /\ \E e \in ReadErrors : messages' = AppendError(messages, e)
    /\ sendingMessage' = Finally(TRUE)
    /\ calls' = [calls EXCEPT ![i].pc = "failed"]
    /\ UNCHANGED <<currentMessage, input, rSending, bytesSent>>

\* Chat.tsx:67  the re-render after updates made outside an event handler:
\* handleSend is re-created with the current sendingMessage
Render ==
    /\ rSending /= sendingMessage
    /\ rSending' = sendingMessage
    /\ UNCHANGED <<messages, currentMessage, input, sendingMessage, calls, bytesSent>>

Network == \E i \in 1..Len(calls) :
    FetchOk(i) \/ FetchFail(i) \/ ReadChunk(i) \/ ReadDone(i) \/ ReadError(i)

NextChat ==
    \/ (\E s \in Inputs : TypeInput(s)) /\ Frame("chat")
    \/ SendStart /\ Frame("chat")
    \/ SendRejected /\ Frame("chat")
    \/ (\E i \in 1..Len(calls) : FetchOk(i)) /\ Frame("chat")
    \/ (\E i \in 1..Len(calls) : FetchFail(i)) /\ Frame("chat")
    \/ (\E i \in 1..Len(calls) : ReadChunk(i)) /\ Frame("chat")
    \/ (\E i \in 1..Len(calls) : ReadDone(i)) /\ Frame("chat")
    \/ (\E i \in 1..Len(calls) : ReadError(i)) /\ Frame("chat")
    \/ Render /\ Frame("chat")

----------------------------------------------------------------------------
(* Chat container: useChatScroll(messages, currentMessage), ChatScroll.tsx  *)
(* The hook is driven by the renders of ChatContainer; a render passes the *)
(* message list and the partial message as props.                          *)

MaxScMessages == 3   \* messages in the list given to useChatScroll
MaxScrolls == 3      \* scroll motions scheduled in one run

ScRoles == {"user", "assistant"}
ScCurrents == {Null, Some(<<>>), Some(<<"a">>), Some(<<"a", "a">>)}

NoScroll == [target |-> "none", position |-> "none", behavior |-> "none"]
\* container.scrollTo({top: container.scrollHeight, behavior: 'smooth'})
ScrollToEnd == [target |-> "container", position |-> "end", behavior |-> "smooth"]
\* lastBot.scrollIntoView({behavior: 'smooth', block: 'start'})
ScrollIntoView == [target |-> "element", position |-> "start", behavior |-> "smooth"]

\* the container div carries the ref in every render
chatContainerRef == TRUE

\* container.querySelector('[data-role="system"]:last-child'): the only element
\* with data-role='system' is the one ChatContainer renders for a truthy
\* currentMessage, after the messages
lastBot(cur) == ~cur.null /\ cur.text /= <<>>

\* the body of the effect
scrollDecision_AnyRole(msgs, cur) ==
    IF chatContainerRef /\ Len(msgs) > 0 THEN ScrollToEnd ELSE NoScroll
scrollDecision(msgs, cur) ==
    IF chatContainerRef /\ Len(msgs) > 0
    THEN IF msgs[Len(msgs)] = "user" THEN ScrollToEnd
         ELSE IF lastBot(cur) THEN ScrollIntoView
         ELSE NoScroll
    ELSE NoScroll

\* the dependency array [messages, currentMessage]: the effect runs again when
\* a dependency differs from the one of the previous render; every list the
\* page sets is a new array with one more entry
DepsChanged_NoArray(msgs, cur) == TRUE
DepsChanged(msgs, cur) == msgs /= scMessages \/ cur /= scCurrent

\* a render of ChatContainer with these props, and the effect after it
useChatScroll(msgs, cur) ==
    /\ scMessages' = msgs
    /\ scCurrent' = cur
    /\ IF DepsChanged(msgs, cur)
       THEN /\ scLast' = scrollDecision(msgs, cur)
            /\ scCount' = IF scrollDecision(msgs, cur) = NoScroll
                          THEN scCount ELSE scCount + 1
       ELSE UNCHANGED <<scLast, scCount>>

\* after the first render: the list is empty, the effect ran and did nothing
InitScroll ==
    /\ scMessages = <<>>
    /\ scCurrent = Null
    /\ scLast = NoScroll
    /\ scCount = 0

\* the page appended a message (and possibly set currentMessage in the same batch)
ScAppend(role, cur) ==
    /\ Len(scMessages) < MaxScMessages
    /\ scCount < MaxScrolls
    /\ useChatScroll(Append(scMessages, role), cur)

\* the page set currentMessage
ScSetCurrent(cur) ==
    /\ cur /= scCurrent
    /\ scCount < MaxScrolls
    /\ useChatScroll(scMessages, cur)

\* a re-render for another reason (input typed, sidebar toggled): same props
ScRerender ==
    /\ scCount < MaxScrolls
    /\ useChatScroll(scMessages, scCurrent)

NextScroll ==
    \/ (\E r \in ScRoles, c \in ScCurrents : ScAppend(r, c)) /\ Frame("sc")
    \/ (\E c \in ScCurrents : ScSetCurrent(c)) /\ Frame("sc")
    \/ ScRerender /\ Frame("sc")

----------------------------------------------------------------------------
(* The stream readers: Chat.tsx:46-57 and the streaming FloatingChatbot,    *)
(* part_003:54-68                                                          *)

MaxStream == 3       \* bytes one stream delivers

Readers == {"Chat", "FloatingChatbot"}

\* TextDecoder.decode(value) without {stream: true}: the input is complete, so
\* a lead byte still waiting at its end is replaced, and the decoder keeps
\* nothing for the next call
decodeWhole(value) ==
    LET r == decode(0, value)
    IN  IF r.pending = 1 THEN Append(r.text, Replacement) ELSE r.text

\* one turn of the read loop: the text decoded from a chunk and the state the
\* decoder keeps.  Chat.tsx:54 passes {stream: true}; part_003:62 does not
decodeChunk(reader, pending, value) ==
    IF reader = "Chat" THEN decode(pending, value)
    ELSE [text |-> decodeWhole(value), pending |-> 0]

DcIdle ==
    /\ dcReader = "Chat" /\ dcBytes = <<>> /\ dcPending = 0
    /\ dcAcc = <<>> /\ dcDone = FALSE

\* const decoder = new TextDecoder(); let acc = ""
InitDecode ==
    /\ dcReader \in Readers
    /\ dcBytes = <<>> /\ dcPending = 0 /\ dcAcc = <<>> /\ dcDone = FALSE

\* reader.read() gives {done: false, value}; the chunk is decoded and appended
DcRead(value) ==
    /\ ~dcDone
    /\ Len(dcBytes) + Len(value) <= MaxStream
    /\ LET r == decodeChunk(dcReader, dcPending, value)
       IN  /\ dcAcc' = dcAcc \o r.text
           /\ dcPending' = r.pending
    /\ dcBytes' = dcBytes \o value
    /\ UNCHANGED <<dcReader, dcDone>>

\* reader.read() gives {done: true}: the loop ends; no reader flushes the decoder
DcEnd ==
    /\ ~dcDone
    /\ dcDone' = TRUE
    /\ UNCHANGED <<dcReader, dcBytes, dcPending, dcAcc>>

NextDecode ==
    \/ (\E value \in Chunks : DcRead(value)) /\ Frame("dc")
    \/ DcEnd /\ Frame("dc")

----------------------------------------------------------------------------
(* Report page: score and breakdown from graphdata, Company.tsx:136-157 and *)
(* 173-201.  The payload text is a sequence of tokens: "FJ" is ```json with *)
(* its newline, "F" is ```, "WS" a space, "NBSP" a no-break space (matched  *)
(* by \s and trimmed by trim(), but no JSON whitespace), "{" and "}" the    *)
(* braces, "BODY" the members                                              *)
(*   "overall_greenwashing_score":{"score":0.7},"a_b":{"score":0.5}        *)
(* and "NULL" the literal null.  Scores are kept in tenths.                *)

MaxGdPieces == 4     \* tokens in a graphdata text

GdPieces == {"FJ", "F", "WS", "NBSP", "{", "}", "BODY", "NULL"}
GdDocs == SeqsUpTo(GdPieces, MaxGdPieces)
GdSpace == {"WS", "NBSP"}

GdBody == [overall |-> 7, key |-> <<"a", "_", "b">>, score |-> 5]

\* apiRes.data.overall_score: absent, or 6.6
GdOveralls == {[present |-> FALSE, tenths |-> 0], [present |-> TRUE, tenths |-> 66]}
\* apiRes.data.breakdown when present: [{type: "t", value: 6.6}]
GdApiEntry == [type |-> <<"t">>, tenths |-> 66]

\* Math.round of a non-negative number given in tenths
MathRound(tenths) == (tenths + 5) \div 10

\* .replace(/```json\n?/g, '').replace(/```/g, '')
StripFences(doc) ==
    LET noJson == SelectSeq(doc, LAMBDA p : p /= "FJ")
    IN  SelectSeq(noJson, LAMBDA p : p /= "F")

\* String.prototype.trim on tokens
RECURSIVE GdTrimLeft(_)
GdTrimLeft(doc) ==
    IF doc /= <<>> /\ Head(doc) \in GdSpace THEN GdTrimLeft(Tail(doc)) ELSE doc

RECURSIVE GdTrimRight(_)
GdTrimRight(doc) ==
    IF doc /= <<>> /\ doc[Len(doc)] \in GdSpace
    THEN GdTrimRight(SubSeq(doc, 1, Len(doc) - 1)) ELSE doc

GdTrim(doc) == GdTrimRight(GdTrimLeft(doc))

\* JSON.parse: whitespace between tokens is skipped; the text must be one value
JSONparse(doc) ==
    LET t == SelectSeq(doc, LAMBDA p : p /= "WS")
    IN  CASE t = <<"NULL">>           -> [ok |-> TRUE, value |-> "null"]
          [] t = <<"{", "}">>         -> [ok |-> TRUE, value |-> "emptyObject"]
          [] t = <<"{", "BODY", "}">> -> [ok |-> TRUE, value |-> "metrics"]
          [] OTHER                    -> [ok |-> FALSE, value |-> "SyntaxError"]

\* .replace(/^\s*{\s*/, '{')
RepairHead(doc) ==
    LET rest == GdTrimLeft(doc)
    IN  IF rest /= <<>> /\ Head(rest) = "{" THEN <<"{">> \o GdTrimLeft(Tail(rest)) ELSE doc

\* .replace(/\s*}\s*$/, '}')
RepairTail(doc) ==
    LET rest == GdTrimRight(doc)
    IN  IF rest /= <<>> /\ rest[Len(rest)] = "}"
        THEN GdTrimRight(SubSeq(rest, 1, Len(rest) - 1)) \o <<"}">>
        ELSE doc

Repair(doc) == RepairTail(RepairHead(doc))

\* Company.tsx:139-148 (and 177-185): the fences are removed and the text is
\* trimmed before the first parse; a second parse follows the only repair; a
\* failure of the second parse is thrown
parseGraphdata(doc) ==
    LET cleanData == GdTrim(StripFences(doc))
        first == JSONparse(cleanData)
        second == JSONparse(Repair(cleanData))
    IN  IF first.ok THEN [threw |-> FALSE, value |-> first.value, parses |-> 1]
        ELSE [threw |-> ~second.ok, value |-> second.value, parses |-> 2]

\* Company.tsx:152,155  Math.round(apiRes.data.overall_score ?? 0)
scoreCatch_Zero(overall) == 0
scoreCatch(overall) == IF overall.present THEN MathRound(overall.tenths) ELSE 0

\* Company.tsx:136-157
score(doc, overall) ==
    IF doc = <<>> THEN scoreCatch(overall)          \* "" is falsy: no graphdata
    ELSE LET g == parseGraphdata(doc)
         IN  IF g.threw THEN scoreCatch(overall)
             ELSE IF g.value = "null" THEN scoreCatch(overall)   \* TypeError, caught
             ELSE IF g.value = "metrics" THEN MathRound(GdBody.overall * 10)
             ELSE 0                                 \* ?.score ?? 0

Upper(c) == CASE c = "a" -> "A" [] c = "b" -> "B" [] c = "t" -> "T" [] OTHER -> c
WordChar(c) == c \in {"a", "b", "t", "_"}

\* key.replace(/_/g, ' ').replace(/\b\w/g, l => l.toUpperCase())
TitleCase(key) ==
    LET spaced == [k \in 1..Len(key) |-> IF key[k] = "_" THEN " " ELSE key[k]]
    IN  [k \in 1..Len(spaced) |->
            IF WordChar(spaced[k]) /\ (k = 1 \/ ~WordChar(spaced[k - 1]))
            THEN Upper(spaced[k]) ELSE spaced[k]]

\* Company.tsx:173-201
breakdown(doc, hasBreakdown) ==
    IF doc = <<>>
    THEN IF hasBreakdown
         THEN <<[type |-> GdApiEntry.type, value |-> MathRound(GdApiEntry.tenths)]>>
         ELSE <<>>
    ELSE LET g == parseGraphdata(doc)
         IN  IF g.threw THEN <<>>
             ELSE IF g.value = "null" THEN <<>>     \* Object.entries(null): TypeError, caught
             ELSE IF g.value = "metrics"
                  THEN <<[type |-> TitleCase(GdBody.key), value |-> MathRound(GdBody.score * 10)]>>
             ELSE <<>>

GdPending == [state |-> "pending", score |-> 0, breakdown |-> <<>>, parses |-> 0]

GdIdle ==
    /\ gdDoc = <<>> /\ gdOverall = [present |-> FALSE, tenths |-> 0]
    /\ gdApiBreakdown = FALSE /\ gdOut = GdPending

InitGraphdata ==
    /\ gdDoc \in GdDocs
    /\ gdOverall \in GdOveralls
    /\ gdApiBreakdown \in BOOLEAN
    /\ gdOut = GdPending

\* the evaluation of view.score and view.breakdown
GraphdataCall ==
    /\ gdOut = GdPending
    /\ gdOut' = [state |-> "returned",
                 score |-> score(gdDoc, gdOverall),
                 breakdown |-> breakdown(gdDoc, gdApiBreakdown),
                 parses |-> IF gdDoc = <<>> THEN 0 ELSE parseGraphdata(gdDoc).parses]
    /\ UNCHANGED <<gdDoc, gdOverall, gdApiBreakdown>>

NextGraphdata == GraphdataCall /\ Frame("gd")

----------------------------------------------------------------------------
(* Report page: the source of the view, Company.tsx:95-131 and 222-234 *)

RpIds == {"s1", "s2"}
NoId == "none"                       \* the route has no id parameter

\* what localStorage holds under report:<id>
\*   absent        no entry
\*   empty         the empty string
\*   syntax        text that is no JSON
\*   null          the JSON text null
\*   badBreakdown  {"breakdown": 5}
\*   illTyped      {"company_name": ..., "final_synthesis": 5}
\*   valid         a report object
RpBrokenKinds == {"syntax", "null", "badBreakdown", "illTyped"}
RpEntries ==
    {[kind |-> k, name |-> "none"] : k \in {"absent", "empty"} \cup RpBrokenKinds}
        \cup {[kind |-> "valid", name |-> n] : n \in {"A", "B"}}

\* the live lookup: apiRes is undefined while loading and after an error;
\* a response body may lack its data field
RpQueryStates == {"loading", "error", "noData", "data"}

NoView == [state |-> "pending", source |-> "none", name |-> "none"]
Rendered(source, name) == [state |-> "rendered", source |-> source, name |-> name]
RenderRaised(source) == [state |-> "raised", source |-> source, name |-> "none"]

\* Company.tsx:111-129: null, or the view made from the entry
viewLS(id, cache) ==
    IF id = NoId THEN [null |-> TRUE, name |-> "none", synthesisIsText |-> TRUE]
    ELSE LET raw == cache[id]
         IN  IF raw.kind \in {"absent", "empty"}              \* if (!raw) return null
             THEN [null |-> TRUE, name |-> "none", synthesisIsText |-> TRUE]
             ELSE IF raw.kind \in {"syntax", "null", "badBreakdown"}   \* catch { return null }
             THEN [null |-> TRUE, name |-> "none", synthesisIsText |-> TRUE]
             ELSE [null |-> FALSE, name |-> raw.name,
                   synthesisIsText |-> raw.kind /= "illTyped"]

\* Company.tsx:131-234: the view is chosen, then parseFinalSynthesis splits
\* view.final_synthesis, which raises a TypeError for a truthy non-string
renderView(id, cache, query) ==
    IF query = "data" THEN Rendered("live", id)
    ELSE LET ls == viewLS(id, cache)
         IN  IF ls.null THEN Rendered("mock", "mock")
             ELSE IF ls.synthesisIsText THEN Rendered("cache", ls.name)
             ELSE RenderRaised("cache")

RpIdle ==
    /\ rpId = NoId
    /\ rpCache = [i \in RpIds |-> [kind |-> "absent", name |-> "none"]]
    /\ rpQuery = "loading"
    /\ rpView = NoView

\* the page is mounted for a route; enabled: !!id
InitReport ==
    /\ rpId \in RpIds \cup {NoId}
    /\ rpCache \in [RpIds -> RpEntries]
    /\ rpQuery = "loading"
    /\ rpView = NoView

\* a render of the page
RpRender ==
    /\ rpView' = renderView(rpId, rpCache, rpQuery)
    /\ UNCHANGED <<rpId, rpCache, rpQuery>>

\* APIService.getReport(id) settles (retry: 0)
RpSettle(outcome) ==
    /\ rpId /= NoId
    /\ rpQuery = "loading"
    /\ rpQuery' = outcome
    /\ rpView' = renderView(rpId, rpCache, outcome)
    /\ UNCHANGED <<rpId, rpCache>>

\* the route changes to another report: a new query key, no data yet
RpNavigate(id) ==
    /\ id /= rpId
    /\ rpId' = id
    /\ rpQuery' = "loading"
    /\ rpView' = renderView(id, rpCache, "loading")
    /\ UNCHANGED rpCache

NextReport ==
    \/ RpRender /\ Frame("rp")
    \/ (\E o \in RpQueryStates \ {"loading"} : RpSettle(o)) /\ Frame("rp")
    \/ (\E i \in RpIds : RpNavigate(i)) /\ Frame("rp")

----------------------------------------------------------------------------
(* FloatingChatbot: v2/src/components/FloatingChatbot.tsx (requests through *)
(* APIService, loads the conversation when opened) and part_003 (streams    *)
(* from /v1/chat, no history)                                              *)

MaxFcMessages == 4   \* messages in the list when a send starts
MaxLoads == 2        \* getConversation calls in flight

FcVariants == {"api", "stream"}
FcInputs == {<<>>, <<" ">>, <<"h">>}

\* message contents: the welcome text, a message of the loaded history, the
\* trimmed input, the reply of the backend, t("common.error"), and the canned
\* answer generateSmartReply picks from the words of the question
FcMsg(role, content) == [role |-> role, content |-> content]
Welcome == FcMsg("assistant", "welcome")
History == <<FcMsg("user", "history"), FcMsg("assistant", "history")>>

\* FloatingChatbot.tsx:149-173: an answer about the product, chosen by keywords
generateSmartReply(question) == "smartReply"

\* FloatingChatbot.tsx:45  sessionId || localStorage.getItem("lastSessionId");
\* part_003 has no loadHistory
loadHistory ==
    IF fcVariant = "stream" THEN UNCHANGED <<fcMessages, fcLoads>>
    ELSE IF ~fcSession
         THEN fcMessages' = <<Welcome>> /\ UNCHANGED fcLoads
         ELSE fcLoads' = fcLoads + 1 /\ UNCHANGED fcMessages

FcIdle ==
    /\ fcVariant = "api" /\ fcSession = FALSE /\ fcOpen = FALSE
    /\ fcMessages = <<>> /\ fcInput = <<>> /\ fcLoading = FALSE
    /\ fcLoads = 0 /\ fcToast = FALSE

InitFloat ==
    /\ fcVariant \in FcVariants
    /\ fcSession \in BOOLEAN
    /\ fcOpen = FALSE
    /\ fcMessages = IF fcVariant = "api" THEN <<>> ELSE <<Welcome>>
    /\ fcInput = <<>>
    /\ fcLoading = FALSE
    /\ fcLoads = 0
    /\ fcToast = FALSE

\* the launcher button: setIsOpen(!isOpen); the effect on [isOpen, t, sessionId]
\* calls loadHistory when the chat has become open
FcToggle ==
    /\ fcOpen' = ~fcOpen
    /\ IF ~fcOpen
       THEN (fcVariant = "api" /\ fcSession => fcLoads < MaxLoads) /\ loadHistory
       ELSE UNCHANGED <<fcMessages, fcLoads>>
    /\ UNCHANGED <<fcVariant, fcSession, fcInput, fcLoading, fcToast>>

\* getConversation settles: the list is replaced by the history or the welcome
FcLoadSettles(outcome) ==
    /\ fcLoads > 0
    /\ fcLoads' = fcLoads - 1
    /\ fcMessages' = IF outcome = "history" THEN History ELSE <<Welcome>>
    /\ UNCHANGED <<fcVariant, fcSession, fcOpen, fcInput, fcLoading, fcToast>>

\* the textarea (disabled={isLoading})
FcType(text) ==
    /\ fcOpen /\ ~fcLoading
    /\ text /= fcInput
    /\ fcInput' = text
    /\ UNCHANGED <<fcVariant, fcSession, fcOpen, fcMessages, fcLoading, fcLoads, fcToast>>

\* handleSend up to the await
FcSendStart ==
    /\ fcOpen
    /\ ~(Trim(fcInput) = <<>> \/ fcLoading)
    /\ Len(fcMessages) < MaxFcMessages
    /\ fcInput' = <<>>
    /\ fcMessages' = Append(fcMessages, FcMsg("user", "typed"))
    /\ fcLoading' = TRUE
    /\ UNCHANGED <<fcVariant, fcSession, fcOpen, fcLoads, fcToast>>

\* the request (and, in part_003, the stream) completes
FcSendOk(response) ==
    /\ fcLoading
    /\ fcMessages' = Append(fcMessages,
           FcMsg("assistant", IF response = "" THEN "commonError" ELSE "reply"))
    /\ fcLoading' = FALSE
    /\ UNCHANGED <<fcVariant, fcSession, fcOpen, fcInput, fcLoads, fcToast>>

\* the request is rejected, or answered with a non-success status (axios
\* rejects it; part_003 tests response.ok), or the stream fails
FcSendFails(failure) ==
    /\ fcLoading
    /\ failure = "streamError" => fcVariant = "stream"
    /\ fcMessages' = Append(fcMessages, FcMsg("assistant", generateSmartReply("typed")))
    /\ fcToast' = IF fcVariant = "stream" /\ failure /= "notOk" THEN TRUE ELSE fcToast
    /\ fcLoading' = FALSE
    /\ UNCHANGED <<fcVariant, fcSession, fcOpen, fcInput, fcLoads>>

FcFailures == {"rejected", "notOk", "streamError"}

NextFloat ==
    \/ FcToggle /\ Frame("fc")
    \/ (\E o \in {"history", "empty", "error"} : FcLoadSettles(o)) /\ Frame("fc")
    \/ (\E text \in FcInputs : FcType(text)) /\ Frame("fc")
    \/ FcSendStart /\ Frame("fc")
    \/ (\E r \in {"", "reply"} : FcSendOk(r)) /\ Frame("fc")
    \/ (\E f \in FcFailures : FcSendFails(f)) /\ Frame("fc")

----------------------------------------------------------------------------
(* Report page: the synthesis text of the view, Company.tsx:131-135 *)

Locales == {"en", "de", "it", "fr"}

\* the texts a report body can carry: final_synthesis_i18n[l] for the locales
\* of lcMap, final_synthesis, response
LocaleText(l) == <<"synthesis", l>>
LegacyText == <<"synthesis">>
ResponseText == <<"response">>

LcPending == [state |-> "pending", value |-> <<>>]

\* Company.tsx:134  apiRes.data.final_synthesis ?? apiRes.data.response ?? "";
\* neither final_synthesis_i18n nor the language of the user is read
final_synthesis(map, req, hasLegacy, hasResponse) ==
    IF hasLegacy THEN LegacyText
    ELSE IF hasResponse THEN ResponseText
    ELSE <<>>

LcIdle ==
    /\ lcMap = {} /\ lcReq = "en" /\ lcLegacy = FALSE /\ lcResponse = FALSE
    /\ lcOut = LcPending

InitLocale ==
    /\ lcMap \in SUBSET Locales
    /\ lcReq \in Locales
    /\ lcLegacy \in BOOLEAN
    /\ lcResponse \in BOOLEAN
    /\ lcOut = LcPending

\* the evaluation of view.final_synthesis
LocaleCall ==
    /\ lcOut = LcPending
    /\ lcOut' = [state |-> "returned",
                 value |-> final_synthesis(lcMap, lcReq, lcLegacy, lcResponse)]
    /\ UNCHANGED <<lcMap, lcReq, lcLegacy, lcResponse>>

NextLocale == LocaleCall /\ Frame("lc")

----------------------------------------------------------------------------
(* PrefaceSanitizer, specification section 4.3.  The text before the first  *)
(* heading is the preface; its lines that are boilerplate are removed.     *)

MaxSanLines == 4     \* lines in a document given to the sanitizer

\* the boilerplate disclaimer pattern, in lower case
BoilerplatePattern == <<"t", "r">>

SanLines ==
    { <<"t", "r">>, <<"T", "r">>,                       \* boilerplate, two spellings
      <<"t", "r", " ", "x">>,                           \* contains the pattern only
      <<"x">>, <<>>,                                    \* text, empty line
      <<"#", "#", " ", "T">>,                           \* markdown subheading
      <<"1", ".", " ", "T">>,                           \* numbered heading
      <<"*", "*", "1", ".", " ", "T", "*", "*">> }      \* numbered heading, emphasised
SanDocs == SeqsUpTo(SanLines, MaxSanLines)

ToLower(c) == CASE c = "T" -> "t" [] c = "R" -> "r" [] c = "X" -> "x" [] OTHER -> c
LowerCase(line) == [k \in 1..Len(line) |-> ToLower(line[k])]

\* lines.join("\n")
RECURSIVE JoinLines(_)
JoinLines(lines) ==
    IF lines = <<>> THEN <<>>
    ELSE IF Len(lines) = 1 THEN lines[1]
    ELSE lines[1] \o <<"\n">> \o JoinLines(Tail(lines))

\* text.split("\n")
RECURSIVE SplitLines(_, _)
SplitLines(text, line) ==
    IF text = <<>> THEN <<line>>
    ELSE IF Head(text) = "\n" THEN <<line>> \o SplitLines(Tail(text), <<>>)
    ELSE SplitLines(Tail(text), Append(line, Head(text)))

\* a line that opens with a recognized heading: ## <title>, or <N>. <title>
\* with or without emphasis markers
IsHeadingLine(line) ==
    LET bare == IF IsPrefix(<<"*", "*">>, line) THEN SubSeq(line, 3, Len(line)) ELSE line
    IN  \/ IsPrefix(<<"#", "#", " ">>, line)
        \/ /\ Len(bare) >= 3
           /\ bare[1] \in {"0", "1", "2", "3", "4", "5", "6", "7", "8", "9"}
           /\ bare[2] = "." /\ bare[3] = " "

\* a line that fully matches a boilerplate pattern, case-insensitively
IsBoilerplate(line) == LowerCase(line) = BoilerplatePattern

\* the preface without its boilerplate lines
RemoveBoilerplate_FirstOnly(lines) ==
    LET hits == {k \in 1..Len(lines) : IsBoilerplate(lines[k])}
    IN  IF hits = {} THEN lines
        ELSE SubSeq(lines, 1, Least(hits) - 1) \o SubSeq(lines, Least(hits) + 1, Len(lines))
RemoveBoilerplate(lines) == SelectSeq(lines, LAMBDA l : ~IsBoilerplate(l))

PrefaceSanitizer(text) ==
    LET lines == SplitLines(text, <<>>)
        headings == {k \in 1..Len(lines) : IsHeadingLine(lines[k])}
    IN  IF headings = {} THEN text                      \* no heading: unchanged
        ELSE LET first == Least(headings)
                 kept == RemoveBoilerplate(SubSeq(lines, 1, first - 1))
                 onward == SubSeq(lines, first, Len(lines))
             IN  IF \A k \in 1..Len(kept) : Trim(kept[k]) = <<>>
                 THEN JoinLines(onward)                 \* nothing remains of the preface
                 ELSE JoinLines(kept \o onward)

NotSanitized == [done |-> FALSE, text |-> <<>>]
Sanitized(text) == [done |-> TRUE, text |-> text]

PsIdle == psDoc = <<>> /\ psOnce = NotSanitized /\ psTwice = NotSanitized

InitSanitizer == psDoc \in SanDocs /\ psOnce = NotSanitized /\ psTwice = NotSanitized

\* the document is sanitized
SanitizeOnce ==
    /\ ~psOnce.done
    /\ psOnce' = Sanitized(PrefaceSanitizer(JoinLines(psDoc)))
    /\ UNCHANGED <<psDoc, psTwice>>

\* the sanitized document is sanitized again
SanitizeAgain ==
    /\ psOnce.done /\ ~psTwice.done
    /\ psTwice' = Sanitized(PrefaceSanitizer(psOnce.text))
    /\ UNCHANGED <<psDoc, psOnce>>

NextSanitizer ==
    \/ SanitizeOnce /\ Frame("ps")
    \/ SanitizeAgain /\ Frame("ps")

----------------------------------------------------------------------------
(* docs/web chat handlers: useChat.ts, ChatInterface.tsx, ExplainableAI.tsx *)
(* and UploadForm (form.component.tsx).  The four handleSend functions have *)
(* one shape; they differ in how the reply is read and in the controls.     *)

MaxDwSends == 2      \* exchanges started in one run
MaxDwChunks == 2     \* chunks delivered in one run

DwHandlers == {"useChat", "ChatInterface", "ExplainableAI", "UploadForm"}
NoHandler == "none"

\* a component that is not rendered has no state
NotRendered == <<>>

\* useChat.ts:33-52, ChatInterface.tsx:91-111 read "data: " lines from
\* response.data; ExplainableAI.tsx:122-127, form.component.tsx:213-218 iterate
\* chatResponse.values() and accumulate the decoded text
ReadsDataLines(h) == h \in {"useChat", "ChatInterface"}

\* ExplainableAI.tsx:20,32-63 and form.component.tsx:61,111-138 show the upload
\* form first and own the Validate button
HasUpload(h) == h \in {"ExplainableAI", "UploadForm"}

DwInputs == {<<>>, <<" ">>, <<"h">>}

\* what APIService.sendChatMessage resolves to: api.service.ts:52 returns the
\* body stream itself ("stream"); an object that carries the stream in a data
\* field ("wrapped") is what useChat.ts:33 and ChatInterface.tsx:91 look for
DwResponses == {"stream", "wrapped"}

\* lines of a decoded chunk: a prefix piece and payload characters
DataPrefix == "data: "
DoneMark == "[DONE]"
DwLines == {<<DataPrefix, "a">>, <<DataPrefix, DoneMark>>, <<DataPrefix, " ">>, <<"a">>}
DwLineChunks == {<<l>> : l \in DwLines} \cup {<<<<DataPrefix, "a">>, <<DataPrefix, DoneMark>>>>}

\* chunks of bytes: a character, a two-byte character, half of one
DwByteChunks == {<<"a">>, <<"C3", "A9">>, <<"C3">>}

UploadText == "upload response"
ValidateLabel == "Validate"
ValidatedText == "validated response"
ValidateErrorText == "There was an error validating the document. Please try again."
SendErrorText == "Sorry, there was an error processing your request. Please try again."

\* useChat.ts:17-23  [...prev, currentMessage ? {system, currentMessage} : null,
\* {user, input}].filter(Boolean)
commitAndAppend(prev, cur, in) ==
    (IF ~cur.null /\ cur.text /= <<>> THEN Append(prev, Msg("system", cur.text)) ELSE prev)
        \o <<Msg("user", in)>>

\* useChat.ts:45-48  one line of a chunk: the payload appended to the partial
\* message, or nothing
dataOf(line) ==
    IF line /= <<>> /\ Head(line) = DataPrefix
    THEN LET data == Trim(Tail(line))
         IN  IF data /= <<>> /\ data /= <<DoneMark>> THEN data ELSE <<>>
    ELSE <<>>

\* useChat.ts:44-51  the for loop over the lines of a chunk, each
\* setCurrentMessage((prev) => (prev || '') + data)
RECURSIVE onLines(_, _)
onLines(cur, lines) ==
    IF lines = <<>> THEN cur
    ELSE onLines(IF dataOf(Head(lines)) = <<>> THEN cur
                 ELSE Some(cur.text \o dataOf(Head(lines))),
                 Tail(lines))

\* form.component.tsx:483,499 and part_017:35,45: the input bar is disabled
\* while sendingMessage || validating; ChatInterface.tsx:248,263 and
\* useChat.ts:144: while sendingMessage
InputBarEnabled ==
    /\ ~dw.showUploadForm
    /\ ~dw.sendingMessage
    /\ HasUpload(dwHandler) => ~dw.validating

\* form.component.tsx:437-441: the Validate button is rendered when
\* showValidateButton and disabled while validating
ValidateOffered_Always == ~dw.showUploadForm /\ HasUpload(dwHandler)
ValidateOffered == ~dw.showUploadForm /\ HasUpload(dwHandler) /\ dw.showValidateButton

\* the useState values of the first render (form.component.tsx:58-73); upload,
\* validate and send are the positions of the three asynchronous handlers and
\* accumulatedText the local of form.component.tsx:213
DwFirstRender(h) ==
    [messages |-> <<>>, currentMessage |-> Null, input |-> <<>>,
     showUploadForm |-> HasUpload(h), showValidateButton |-> FALSE,
     validating |-> FALSE, sendingMessage |-> FALSE,
     upload |-> "idle", validate |-> "idle", send |-> "idle",
     accumulatedText |-> <<>>, sends |-> 0, chunks |-> 0]

DwIdle == dwHandler = NoHandler /\ dw = NotRendered

InitDocsWeb == dwHandler \in DwHandlers /\ dw = DwFirstRender(dwHandler)

\* form.component.tsx:190,305: Detect submits the form and refetch() starts the
\* upload; the button is disabled while the query is fetching
DwUploadStart ==
    /\ dw.showUploadForm /\ dw.upload = "idle"
    /\ dw' = [dw EXCEPT !.upload = "fetching"]
    /\ UNCHANGED dwHandler

\* form.component.tsx:113-137: queryFn after uploadFile settles
DwUploadSettles(ok) ==
    /\ dw.upload = "fetching"
    /\ dw' = IF ok
             THEN [dw EXCEPT !.upload = "idle",
                             !.messages = Append(@, Msg("system", <<UploadText>>)),
                             !.showUploadForm = FALSE,
                             !.showValidateButton = TRUE]
             ELSE [dw EXCEPT !.upload = "idle"]
    /\ UNCHANGED dwHandler

\* form.component.tsx:485  onChange -> setInput
DwType(s) ==
    /\ InputBarEnabled
    /\ s /= dw.input
    /\ dw' = [dw EXCEPT !.input = s]
    /\ UNCHANGED dwHandler

\* form.component.tsx:185-211: handleSend up to the await of sendChatMessage
DwSendStart ==
    /\ InputBarEnabled
    /\ Trim(dw.input) /= <<>>
    /\ dw.sends < MaxDwSends
    /\ dw' = [dw EXCEPT !.messages = commitAndAppend(@, dw.currentMessage, dw.input),
                        !.currentMessage = Null,
                        !.input = <<>>,
                        !.sendingMessage = TRUE,
                        !.showValidateButton = IF HasUpload(dwHandler) THEN FALSE ELSE @,
                        !.send = "fetching",
                        !.accumulatedText = <<>>,
                        !.sends = @ + 1]
    /\ UNCHANGED dwHandler

\* form.component.tsx:186: a send attempt with blank input returns at once
DwSendBlank ==
    /\ InputBarEnabled
    /\ Trim(dw.input) = <<>>
    /\ UNCHANGED <<dwHandler, dw>>

\* the catch and finally blocks, form.component.tsx:219-230
DwCatch(s) ==
    [s EXCEPT !.messages = Append(@, Msg("system", <<SendErrorText>>)),
              !.sendingMessage = FALSE,
              !.send = "idle"]

\* the finally block alone, form.component.tsx:228-230
DwFinally(s) == [s EXCEPT !.sendingMessage = FALSE, !.send = "idle"]

\* sendChatMessage settles: useChat.ts:31-33 / form.component.tsx:211-214.
\* useChat skips the reading when response.data is undefined; in UploadForm
\* chatResponse.values of a wrapped response is not a function (TypeError)
DwFetchSettles(r) ==
    /\ dw.send = "fetching"
    /\ dw' = IF r = "rejected" THEN DwCatch(dw)
             ELSE IF ReadsDataLines(dwHandler)
             THEN IF r = "wrapped" THEN [dw EXCEPT !.send = "reading"] ELSE DwFinally(dw)
             ELSE IF r = "stream" THEN [dw EXCEPT !.send = "reading"] ELSE DwCatch(dw)
    /\ UNCHANGED dwHandler

\* useChat.ts:38-51: a chunk of lines arrives
DwReadLines(lines) ==
    /\ dw.send = "reading" /\ ReadsDataLines(dwHandler)
    /\ dw.chunks < MaxDwChunks
    /\ dw' = [dw EXCEPT !.currentMessage = onLines(@, lines),
                        !.chunks = @ + 1]
    /\ UNCHANGED dwHandler

\* form.component.tsx:214-218: a chunk arrives; new TextDecoder().decode(chunk)
DwReadBytes(value) ==
    /\ dw.send = "reading" /\ ~ReadsDataLines(dwHandler)
    /\ dw.chunks < MaxDwChunks
    /\ dw' = [dw EXCEPT !.accumulatedText = @ \o decodeWhole(value),
                        !.currentMessage = Some(dw.accumulatedText \o decodeWhole(value)),
                        !.chunks = @ + 1]
    /\ UNCHANGED dwHandler

\* the stream ends (useChat.ts:39, 63-65) or fails (useChat.ts:54-65)
DwReadEnds(failed) ==
    /\ dw.send = "reading"
    /\ dw' = IF failed THEN DwCatch(dw) ELSE DwFinally(dw)
    /\ UNCHANGED dwHandler

\* form.component.tsx:148-152: a click on Validate, up to the await
DwValidateStart ==
    /\ ValidateOffered /\ ~dw.validating
    /\ dw' = [dw EXCEPT !.validating = TRUE, !.validate = "fetching"]
    /\ UNCHANGED dwHandler

\* form.component.tsx:152-178: validateUpload settles
DwValidateSettles(ok) ==
    /\ dw.validate = "fetching"
    /\ dw' = [dw EXCEPT !.messages = @ \o
                            <<Msg("user", <<ValidateLabel>>),
                              Msg("system", <<IF ok THEN ValidatedText ELSE ValidateErrorText>>)>>,
                        !.validating = FALSE,
                        !.showValidateButton = FALSE,
                        !.validate = "idle"]
    /\ UNCHANGED dwHandler

NextDocsWeb ==
    \/ DwUploadStart /\ Frame("dw")
    \/ (\E ok \in BOOLEAN : DwUploadSettles(ok)) /\ Frame("dw")
    \/ (\E s \in DwInputs : DwType(s)) /\ Frame("dw")
    \/ DwSendStart /\ Frame("dw")
    \/ DwSendBlank /\ Frame("dw")
    \/ (\E r \in DwResponses \cup {"rejected"} : DwFetchSettles(r)) /\ Frame("dw")
    \/ (\E lines \in DwLineChunks : DwReadLines(lines)) /\ Frame("dw")
    \/ (\E value \in DwByteChunks : DwReadBytes(value)) /\ Frame("dw")
    \/ (\E failed \in BOOLEAN : DwReadEnds(failed)) /\ Frame("dw")
    \/ DwValidateStart /\ Frame("dw")
    \/ (\E ok \in BOOLEAN : DwValidateSettles(ok)) /\ Frame("dw")

----------------------------------------------------------------------------
(* Upload page (part_002) with the FloatingChatbot it embeds (part_002:214, *)
(* FloatingChatbot.tsx) and the localStorage entry lastSessionId            *)

MaxUploads == 2      \* handleStart invocations in one run
MaxCbSends == 2      \* messages sent from the chatbot in one run

SessionIds == {"s1", "s2"}
GlobalChat == "global_chat"
UploadRoute == "/upload"

\* what APIService.uploadFile settles to: a rejection, or data with a status
\* and possibly a session_id
UploadResults ==
    {[kind |-> "rejected", status |-> "none", session_id |-> NoId]} \cup
    {[kind |-> "data", status |-> st, session_id |-> id] :
        st \in {"duplicate", "ok"}, id \in SessionIds \cup {NoId}}

\* part_002:66-71  the callback of the interval
tick(prev) == IF prev < 90 THEN prev + 10 ELSE prev

\* part_002:78,87 clearInterval(progressInterval); the catch block (102-118)
\* cannot reach progressInterval, which is declared inside the try block
timersAfter(r, timers) == IF r.kind = "rejected" THEN timers ELSE timers - 1

\* part_002:97-99  try { localStorage.setItem("lastSessionId", sessionId) } catch {}
setItem(old, id, stored) == IF stored THEN id ELSE old

\* FloatingChatbot.tsx:45,114  sessionId || localStorage.getItem("lastSessionId")
\* for the chatbot without a sessionId prop
targetSessionId(last) == last

\* part_002:30-38 the useState values of the Upload page with the position of
\* handleStart (pc), the live intervals (timers), the route the router shows
\* and whether the page is still mounted
UpFirstRender ==
    [files |-> FALSE, uploading |-> FALSE, progress |-> 0, timers |-> 0,
     pc |-> "idle", dialog |-> FALSE, duplicate |-> NoId,
     route |-> UploadRoute, mounted |-> TRUE, count |-> 0]

\* FloatingChatbot.tsx:27-36 the chatbot closed: target is the session whose
\* history is being loaded, shown the session whose history is displayed,
\* posted the session ids of the messages sent
CbFirstRender == [open |-> FALSE, target |-> NoId, shown |-> NoId, posted |-> <<>>]

UpIdle == up = NotRendered /\ lastSessionId = NoId /\ cb = NotRendered

\* the Upload page after its first render; an earlier visit may have left a
\* lastSessionId
InitUpload == up = UpFirstRender /\ lastSessionId \in {NoId, "s1"} /\ cb = CbFirstRender

\* part_002:40-45  onFiles with a non-empty list
UpSelectFiles ==
    /\ up.mounted /\ ~up.files
    /\ up' = [up EXCEPT !.files = TRUE]
    /\ UNCHANGED <<lastSessionId, cb>>

\* part_002:49-74  handleStart up to the await; the button is disabled while
\* uploading || !files (part_002:206) and the open dialog is modal
UpStart ==
    /\ up.mounted /\ up.files /\ ~up.uploading /\ ~up.dialog
    /\ up.count < MaxUploads
    /\ up' = [up EXCEPT !.uploading = TRUE,
                        !.progress = 10,
                        !.timers = @ + 1,
                        !.pc = "uploading",
                        !.count = @ + 1]
    /\ UNCHANGED <<lastSessionId, cb>>

\* part_002:66-71  a live interval fires
UpTick ==
    /\ up.mounted /\ up.timers > 0
    /\ up' = [up EXCEPT !.progress = tick(@)]
    /\ UNCHANGED <<lastSessionId, cb>>

\* part_002:74-123  uploadFile settles; the rest of handleStart with its
\* finally block.  stored: whether localStorage.setItem succeeds
UpStartSettles(r, stored) ==
    /\ up.mounted /\ up.pc = "uploading"
    /\ LET settled == [up EXCEPT !.pc = "idle",
                                 !.timers = timersAfter(r, @),
                                 !.uploading = FALSE,
                                 !.progress = 0]
       IN  IF r.kind = "data" /\ r.status = "duplicate"
           THEN /\ up' = [settled EXCEPT !.duplicate = r.session_id, !.dialog = TRUE]
                /\ UNCHANGED lastSessionId
           ELSE IF r.kind = "data" /\ r.session_id /= NoId
           THEN /\ lastSessionId' = setItem(lastSessionId, r.session_id, stored)
                /\ up' = [settled EXCEPT !.route = r.session_id]
           ELSE /\ up' = settled
                /\ UNCHANGED lastSessionId
    /\ UNCHANGED cb

\* part_002:226-230  "show old": navigate when the duplicate names a session;
\* the cancel button closes the dialog
UpShowOld ==
    /\ up.mounted /\ up.dialog
    /\ up' = [up EXCEPT !.dialog = FALSE,
                        !.route = IF up.duplicate /= NoId THEN up.duplicate ELSE @]
    /\ UNCHANGED <<lastSessionId, cb>>

\* part_002:217  onOpenChange(false) without a choice (Escape)
UpDismiss ==
    /\ up.mounted /\ up.dialog
    /\ up' = [up EXCEPT !.dialog = FALSE]
    /\ UNCHANGED <<lastSessionId, cb>>

\* part_002:233-248  "reanalyze" up to the await
UpReanalyzeStart ==
    /\ up.mounted /\ up.dialog
    /\ up' = [up EXCEPT !.uploading = TRUE,
                        !.progress = 10,
                        !.dialog = FALSE,
                        !.pc = "reanalyzing"]
    /\ UNCHANGED <<lastSessionId, cb>>

\* part_002:248-257  the forced upload settles
UpReanalyzeSettles(r) ==
    /\ up.mounted /\ up.pc = "reanalyzing"
    /\ up' = [up EXCEPT !.pc = "idle",
                        !.uploading = FALSE,
                        !.route = IF r.kind = "data" /\ r.session_id /= NoId
                                  THEN r.session_id ELSE @]
    /\ UNCHANGED <<lastSessionId, cb>>

\* the render after navigate(): the router shows the company page, the Upload
\* page and its chatbot are unmounted
UpUnmount ==
    /\ up.mounted /\ up.route /= UploadRoute
    /\ up' = [up EXCEPT !.mounted = FALSE]
    /\ UNCHANGED <<lastSessionId, cb>>

\* FloatingChatbot.tsx:38-57  the chat is opened and the effect starts
\* loadHistory: without a target the welcome message is shown at once, with
\* one the list stays as it is until getConversation settles
CbOpen ==
    /\ up.mounted /\ ~cb.open
    /\ cb' = [cb EXCEPT !.open = TRUE,
                        !.target = targetSessionId(lastSessionId),
                        !.shown = IF targetSessionId(lastSessionId) = NoId THEN NoId ELSE @]
    /\ UNCHANGED <<up, lastSessionId>>

\* FloatingChatbot.tsx:57-90  getConversation settles: a non-empty history is
\* displayed, otherwise the welcome message
CbLoadSettles(hasHistory) ==
    /\ up.mounted /\ cb.target /= NoId
    /\ cb' = [cb EXCEPT !.shown = IF hasHistory THEN cb.target ELSE NoId,
                        !.target = NoId]
    /\ UNCHANGED <<up, lastSessionId>>

\* FloatingChatbot.tsx:214  the chat is closed
CbClose ==
    /\ up.mounted /\ cb.open
    /\ cb' = [cb EXCEPT !.open = FALSE]
    /\ UNCHANGED <<up, lastSessionId>>

\* FloatingChatbot.tsx:104-120  handleSend with a non-blank input: the message
\* is posted to targetSessionId || "global_chat"
CbSend ==
    /\ up.mounted /\ cb.open
    /\ Len(cb.posted) < MaxCbSends
    /\ cb' = [cb EXCEPT !.posted = Append(@, IF targetSessionId(lastSessionId) /= NoId
                                             THEN targetSessionId(lastSessionId)
                                             ELSE GlobalChat)]
    /\ UNCHANGED <<up, lastSessionId>>

NextUpload ==
    \/ UpSelectFiles /\ Frame("up")
    \/ UpStart /\ Frame("up")
    \/ UpTick /\ Frame("up")
    \/ (\E r \in UploadResults, stored \in BOOLEAN : UpStartSettles(r, stored)) /\ Frame("up")
    \/ UpShowOld /\ Frame("up")
    \/ UpDismiss /\ Frame("up")
    \/ UpReanalyzeStart /\ Frame("up")
    \/ (\E r \in UploadResults : UpReanalyzeSettles(r)) /\ Frame("up")
    \/ UpUnmount /\ Frame("up")
    \/ CbOpen /\ Frame("up")
    \/ (\E h \in BOOLEAN : CbLoadSettles(h)) /\ Frame("up")
    \/ CbClose /\ Frame("up")
    \/ CbSend /\ Frame("up")

----------------------------------------------------------------------------
(* Dashboard: fetchDashboardData, Index.tsx:37-73, with getDashboardData and *)
(* getRiskTrends, api.service.ts:87-121                                     *)

MaxCompanies == 2    \* entries of the /dashboard/companies response

\* a value that may be null or undefined
Absent == [present |-> FALSE, value |-> <<>>]
Present(v) == [present |-> TRUE, value |-> v]

\* bodies of /dashboard/stats: the three counters, or nothing
StatsBodies == {Present(<<3, 1, 1>>), Absent}
Companies == {[name |-> "A", score |-> 50], [name |-> "B", score |-> 80],
              [name |-> "C", score |-> 80]}
\* bodies of /dashboard/companies: a list, or nothing
CompanyLists == {Present(l) : l \in SeqsUpTo(Companies, MaxCompanies)} \cup {Absent}
\* bodies of /dashboard/trends: a list of points, or nothing
TrendBodies == {Present(<<"point">>), Absent}

\* api.service.ts:102-108  the data returned when a dashboard request fails:
\* high_risk_companies, pending_reports, high_priority_reports
DefaultStats == <<0, 0, 0>>

\* api.service.ts:88-109  getDashboardData: both requests, or the empty data
getDashboardData(ok, statsBody, companiesBody) ==
    IF ok THEN [stats |-> statsBody, companies |-> companiesBody]
    ELSE [stats |-> Present(DefaultStats), companies |-> Present(<<>>)]

\* one company placed into a list sorted by score descending, after the
\* entries of equal score (Array.prototype.sort is stable)
RECURSIVE insertDesc(_, _)
insertDesc(c, sorted) ==
    IF sorted = <<>> THEN <<c>>
    ELSE IF Head(sorted).score >= c.score THEN <<Head(sorted)>> \o insertDesc(c, Tail(sorted))
    ELSE <<c>> \o sorted

\* Index.tsx:47  [...data.companies].sort((a, b) => b.score - a.score)
RECURSIVE sortDesc(_)
sortDesc(list) ==
    IF list = <<>> THEN <<>>
    ELSE insertDesc(list[Len(list)], sortDesc(SubSeq(list, 1, Len(list) - 1)))

\* Index.tsx:43  data.stats || null: a body that is null, undefined or empty
\* counts as absent
statsOf(data) == data.stats

\* Index.tsx:45-51  a missing or empty list gives []
companiesOf(data) ==
    IF data.companies.present THEN Present(sortDesc(data.companies.value))
    ELSE Present(<<>>)

\* Index.tsx:63-66  the catch block
catchStats(stats) == Absent

NoData == [stats |-> Absent, companies |-> Absent]

\* Index.tsx:23-35 and the effect up to the first await: data is the local of
\* Index.tsx:41, pc the position of fetchDashboardData
DbFirstRender ==
    [data |-> NoData, stats |-> Absent, companies |-> Absent,
     trend |-> Absent, loading |-> TRUE, pc |-> "dashboard"]

DbIdle == db = NotRendered

InitDashboard == db = DbFirstRender

\* Index.tsx:41-58  getDashboardData resolves; stats and companies are set and
\* getRiskTrends is called
DbDashboardSettles(ok, statsBody, companiesBody) ==
    /\ db.pc = "dashboard"
    /\ LET data == getDashboardData(ok, statsBody, companiesBody)
       IN  db' = [db EXCEPT !.data = data,
                            !.stats = statsOf(data),
                            !.companies = companiesOf(data),
                            !.pc = "trends"]

\* Index.tsx:58-69  getRiskTrends resolves with a body or rejects
DbTrendsSettles(ok, body) ==
    /\ db.pc = "trends"
    /\ db' = IF ok
             THEN [db EXCEPT !.trend = IF body.present THEN body ELSE @,
                             !.pc = "done",
                             !.loading = FALSE]
             ELSE [db EXCEPT !.stats = catchStats(@),
                             !.companies = Present(<<>>),
                             !.pc = "failed",
                             !.loading = FALSE]

NextDashboard ==
    \/ (\E ok \in BOOLEAN, s \in StatsBodies, c \in CompanyLists :
           DbDashboardSettles(ok, s, c)) /\ Frame("db")
    \/ (\E ok \in BOOLEAN, b \in TrendBodies : DbTrendsSettles(ok, b)) /\ Frame("db")

----------------------------------------------------------------------------
(* Specifications *)

\* every area but the one a specification explores stays unused
IdleExcept(area) ==
    /\ IF area = "chat" THEN TRUE ELSE InitChat
    /\ IF area = "ex" THEN TRUE ELSE ExIdle
    /\ IF area = "syn" THEN TRUE ELSE SynIdle
    /\ IF area = "ev" THEN TRUE ELSE EvIdle
    /\ IF area = "sc" THEN TRUE ELSE InitScroll
    /\ IF area = "dc" THEN TRUE ELSE DcIdle
    /\ IF area = "gd" THEN TRUE ELSE GdIdle
    /\ IF area = "rp" THEN TRUE ELSE RpIdle
    /\ IF area = "fc" THEN TRUE ELSE FcIdle
    /\ IF area = "lc" THEN TRUE ELSE LcIdle
    /\ IF area = "ps" THEN TRUE ELSE PsIdle
    /\ IF area = "dw" THEN TRUE ELSE DwIdle
    /\ IF area = "up" THEN TRUE ELSE UpIdle
    /\ IF area = "db" THEN TRUE ELSE DbIdle

\* the Chat page alone; the report page's inputs stay unused
Init == InitChat /\ IdleExcept("chat")

Spec == Init /\ [][NextChat]_vars

\* The request settles and the stream delivers its chunks and then closes or
\* fails (spec section 5); the scheduled re-render runs.
FairSpec == Spec /\ WF_vars(Network /\ Frame("chat"))
                 /\ WF_vars(Render /\ Frame("chat"))

\* calls of extractSection on the bounded documents
InitSpecExtract == InitExtract /\ IdleExcept("ex")

SpecExtract == InitSpecExtract /\ [][NextExtract]_vars

\* evaluations of view.summary on the bounded documents
InitSpecSummary == InitSummary /\ IdleExcept("syn")

SpecSummary == InitSpecSummary /\ [][NextSummary]_vars

\* evaluations of view.evidenceGroups on the bounded documents
InitSpecEvidence == InitEvidence /\ IdleExcept("ev")

SpecEvidence == InitSpecEvidence /\ [][NextEvidence]_vars

\* renders of ChatContainer
InitSpecScroll == InitScroll /\ IdleExcept("sc")

SpecScroll == InitSpecScroll /\ [][NextScroll]_vars

\* the read loops of the two stream readers
InitSpecDecode == InitDecode /\ IdleExcept("dc")

SpecDecode == InitSpecDecode /\ [][NextDecode]_vars

\* evaluations of view.score and view.breakdown on the bounded payloads
InitSpecGraphdata == InitGraphdata /\ IdleExcept("gd")

SpecGraphdata == InitSpecGraphdata /\ [][NextGraphdata]_vars

\* renders of the report page
InitSpecReport == InitReport /\ IdleExcept("rp")

SpecReport == InitSpecReport /\ [][NextReport]_vars

\* the floating chat of both variants
InitSpecFloat == InitFloat /\ IdleExcept("fc")

SpecFloat == InitSpecFloat /\ [][NextFloat]_vars

\* evaluations of view.final_synthesis on the report bodies
InitSpecLocale == InitLocale /\ IdleExcept("lc")

SpecLocale == InitSpecLocale /\ [][NextLocale]_vars

\* the sanitizer applied once and twice to the bounded documents
InitSpecSanitizer == InitSanitizer /\ IdleExcept("ps")

SpecSanitizer == InitSpecSanitizer /\ [][NextSanitizer]_vars

\* the docs/web chat handlers, with upload and validation where the component has them
InitSpecDocsWeb == InitDocsWeb /\ IdleExcept("dw")

SpecDocsWeb == InitSpecDocsWeb /\ [][NextDocsWeb]_vars

\* the Upload page with its chatbot
InitSpecUpload == InitUpload /\ IdleExcept("up")

SpecUpload == InitSpecUpload /\ [][NextUpload]_vars

\* the dashboard load
InitSpecDashboard == InitDashboard /\ IdleExcept("db")

SpecDashboard == InitSpecDashboard /\ [][NextDashboard]_vars

----------------------------------------------------------------------------
(* Chat page: properties *)

\* the text increments the decoder produces for a sequence of chunks
RECURSIVE Increments(_, _)
Increments(pending, chunks) ==
    IF chunks = <<>> THEN <<>>
    ELSE LET d == decode(pending, Head(chunks))
         IN  <<d.text>> \o Increments(d.pending, Tail(chunks))

IsErrorMsg(m) == m.role = "assistant" /\ Len(m.content) = 2 /\ m.content[1] = "Error: "

\* C1: whenever no exchange is in flight (sendingMessage is false) there is
\* no PartialMessage: currentMessage is null.
C1_NoPartialWhenIdle == (~sendingMessage) => currentMessage.null

\* C2: a failing exchange appends exactly its error Message and nothing else,
\* and every assistant Message that is ever appended and is not an error
\* Message is the accumulator of an exchange whose stream completes in that
\* very step; the text accumulated by a failed exchange is never committed.
C2_PartialNeverCommitted ==
    [][ /\ \A i \in 1..Len(calls) :
              (InFlight(calls[i]) /\ calls'[i].pc = "failed")
                 => /\ Len(messages') = Len(messages) + 1
                    /\ SubSeq(messages', 1, Len(messages)) = messages
                    /\ IsErrorMsg(messages'[Len(messages')])
        /\ \A k \in 1..Len(messages') :
              (k > Len(messages) /\ messages'[k].role = "assistant" /\ ~IsErrorMsg(messages'[k]))
                 => \E i \in 1..Len(calls) :
                       /\ calls[i].pc = "reading" /\ calls'[i].pc = "done"
                       /\ messages'[k].content = calls[i].acc
      ]_vars

C2_Witness ==
    \E i \in 1..Len(calls) :
        /\ calls[i].pc = "failed" /\ calls[i].acc /= <<>>
        /\ IsErrorMsg(messages[Len(messages)])

\* C3: while a stream is being read, the PartialMessage equals the
\* concatenation of the increments of the chunks delivered so far, and the
\* Message committed when the stream ends is the concatenation of all of them.
C3_Accumulation ==
    /\ [](\A i \in 1..Len(calls) :
              calls[i].pc = "reading"
                 => currentMessage = Some(Flatten(Increments(0, calls[i].chunks))))
    /\ [][\A i \in 1..Len(calls) :
              (calls[i].pc = "reading" /\ calls'[i].pc = "done")
                 => messages' = Append(messages,
                        Msg("assistant", Flatten(Increments(0, calls[i].chunks))))]_vars

C3_Witness ==
    \E i \in 1..Len(calls) :
        /\ calls[i].pc = "done" /\ Len(calls[i].chunks) = 2
        /\ calls[i].acc = <<"a", "a">>
        /\ messages[Len(messages)] = Msg("assistant", <<"a", "a">>)

\* C4: at most one exchange is in flight at any time, and while one is in
\* flight sendingMessage is true, in the state and in the rendered closure
\* that disables the textarea and the send button.
C4_OneInFlight ==
    /\ Cardinality({i \in 1..Len(calls) : InFlight(calls[i])}) <= 1
    /\ (\E i \in 1..Len(calls) : InFlight(calls[i])) => (sendingMessage /\ rSending)

C4_Witness ==
    /\ Len(calls) >= 2
    /\ InFlight(calls[Len(calls)])
    /\ ~InFlight(calls[1])

\* C5: the message list is append-only: in every step the previous list is a
\* prefix of the new one.
C5_AppendOnly == [][IsPrefix(messages, messages')]_vars

C5_Witness ==
    /\ Len(messages) >= 4
    /\ \E i \in 1..Len(calls) : calls[i].pc = "failed"
    /\ \E i \in 1..Len(calls) : calls[i].pc = "done"

\* C6: every started exchange eventually ends with sendingMessage false.
C6_ExchangeEnds ==
    \A i \in 1..MaxCalls :
        (i <= Len(calls) /\ InFlight(calls[i]))
           ~> (i <= Len(calls) /\ ~InFlight(calls[i]) /\ ~sendingMessage)

C6_Witness ==
    /\ ~sendingMessage
    /\ Len(calls) >= 1
    /\ calls[Len(calls)].pc = "failed"
    /\ calls[Len(calls)].chunks /= <<>>

----------------------------------------------------------------------------
(* Report page: properties *)

Headings(doc) == SelectSeq(doc, LAMBDA p : p \in HeadingPieces)

\* a document of the emphasis grammar: each heading on a line of its own,
\* the headings numbered in increasing order
EmphasisDoc(doc) ==
    /\ \A k \in 1..Len(doc) :
          doc[k] \in HeadingPieces
             => /\ (k > 1 => doc[k - 1] \in {"NL", "BL"})
                /\ (k < Len(doc) => doc[k + 1] \in {"NL", "BL"})
    /\ \A a, b \in 1..Len(Headings(doc)) :
          a < b => HeadingNo(Headings(doc)[a]) < HeadingNo(Headings(doc)[b])

HasHeading(doc, n) == \E k \in 1..Len(doc) : doc[k] \in HeadingPieces /\ HeadingNo(doc[k]) = n

\* C7: for a document of the emphasis grammar, the body returned for section
\* N contains neither the heading of section N nor the heading of section
\* N+1, whether a single newline or a blank line precedes the next heading.
C7_BodyExcludesHeadings ==
    (exOut.state = "returned" /\ exKind = "string" /\ EmphasisDoc(exDoc))
       => /\ ~Contains(exOut.value, HeadingText(exN))
          /\ ~Contains(exOut.value, HeadingText(exN + 1))

\* C8: extractSection never raises, and it returns the empty string for an
\* empty string, for a missing or non-string document, and for a document
\* with no heading opening the requested section.
C8_Total ==
    exOut.state /= "pending"
       => /\ exOut.state = "returned"
          /\ (\/ exKind /= "string"
              \/ TextOf(exDoc) = <<>>
              \/ ~HasHeading(exDoc, exN)) => exOut.value = <<>>

C8_WitnessNonString == exOut.state = "returned" /\ exKind = "object"

\* the pieces between the heading of section n and the heading that ends its body
BodyPieces(doc, n) ==
    LET at(m) == CHOOSE k \in 1..Len(doc) : doc[k] \in HeadingPieces /\ HeadingNo(doc[k]) = m
        stop == IF HasHeading(doc, n + 1) THEN at(n + 1)
                ELSE IF HasHeading(doc, n + 2) THEN at(n + 2)
                ELSE Len(doc) + 1
    IN  SubSeq(doc, at(n) + 1, stop - 1)

\* C9: the body of section N runs from its heading until the heading of
\* section N+1; if there is none, until the heading of section N+2; if there
\* is neither, to the end of the document.
C9_BodyUntilNextHeading ==
    (exOut.state = "returned" /\ exKind = "string" /\ EmphasisDoc(exDoc) /\ HasHeading(exDoc, exN))
       => exOut.value = Trim(TextOf(BodyPieces(exDoc, exN)))

\* the first paragraph: the text before the first blank-line break
FirstParagraph(text) ==
    LET breaks == {i \in 1..Len(text) : StartsWithAt(text, i, <<"\n", "\n">>)}
    IN  IF breaks = {} THEN <<>> ELSE Trim(SubSeq(text, 1, Least(breaks) - 1))

\* C10: the executive summary is the section-1 body; if that is empty, the
\* first paragraph preceding a blank-line break; if that is empty too, the
\* first 200 characters of the document.
C10_SummaryFallbackChain ==
    (synOut.state = "returned" /\ synKind = "string" /\ TextOf(syn) /= <<>>)
       => LET text == TextOf(syn)
              keyed == extractSection(StringValue(text), 1).value
              para == FirstParagraph(text)
          IN  synOut.value = IF keyed /= <<>> THEN keyed
                             ELSE IF para /= <<>> THEN para
                             ELSE Substring0(text, SummaryLimit)

----------------------------------------------------------------------------
(* Report page: evidence properties *)

\* the positions of text where pat occurs
Occurrences(text, pat) == {i \in 1..Len(text) : StartsWithAt(text, i, pat)}

\* the evidence entries of the view, in order
RECURSIVE EvidenceEntries(_)
EvidenceEntries(groups) ==
    IF groups = <<>> THEN <<>> ELSE Head(groups).items \o EvidenceEntries(Tail(groups))

\* C11: a findings section (section-2 body) with k Quotation occurrences yields
\* exactly k evidence entries; each entry holds only its own quotation, so no
\* entry's quotation contains a Quotation or Explanation label, and the text
\* before the first Quotation is not part of the first entry.
C11_EntryPerQuotation ==
    evOut.state = "returned" =>
        LET body == FindingsBody(TextOf(evDoc))
            entries == EvidenceEntries(evOut.groups)
        IN  /\ Len(entries) = Cardinality(Occurrences(body, QuotationLabel))
            /\ \A k \in 1..Len(entries) :
                   /\ ~Contains(entries[k].quote, QuotationLabel)
                   /\ ~Contains(entries[k].quote, ExplanationLabel)

----------------------------------------------------------------------------
(* Chat container: scroll properties *)

\* C12: the scroll scheduled by the last run of the effect depends only on the
\* role of the last message and on the presence of the matching element: a list
\* ending in a user message scrolls the container smoothly to its end; a list
\* ending in an assistant message with the element present scrolls that element
\* smoothly to the top; an empty list schedules nothing.
C12_ScrollDecision ==
    /\ scMessages = <<>> => scLast = NoScroll
    /\ (scMessages /= <<>> /\ scMessages[Len(scMessages)] = "user")
           => scLast = [target |-> "container", position |-> "end", behavior |-> "smooth"]
    /\ (scMessages /= <<>> /\ scMessages[Len(scMessages)] = "assistant" /\ lastBot(scCurrent))
           => scLast = [target |-> "element", position |-> "start", behavior |-> "smooth"]

C12_Witness ==
    /\ scMessages /= <<>> /\ scMessages[Len(scMessages)] = "assistant"
    /\ lastBot(scCurrent)
    /\ scLast = ScrollIntoView
    /\ scCount >= 2

\* C13: a render with an unchanged message list and an unchanged partial
\* message schedules no additional scroll.
C13_Idempotent ==
    [][(scMessages' = scMessages /\ scCurrent' = scCurrent) => scCount' = scCount]_vars

\* a re-render can happen in a state whose decision is a scroll
C13_Witness ==
    /\ scMessages /= <<>> /\ scMessages[Len(scMessages)] = "user"
    /\ scLast = ScrollToEnd
    /\ scCount = 1
    /\ ENABLED ScRerender

----------------------------------------------------------------------------
(* Stream readers: properties *)

\* C14: for every stream reader, when the stream has ended the text accumulated
\* chunk by chunk equals the decoding of all bytes of the stream at once; while
\* the stream is open the accumulated text is a prefix of that decoding unless
\* the last byte is a lead byte still waiting for its continuation.
C14_ChunkedEqualsWhole ==
    /\ dcDone => dcAcc = decodeWhole(dcBytes)
    /\ (~dcDone /\ dcPending = 0) => dcAcc = decodeWhole(dcBytes)

----------------------------------------------------------------------------
(* Report page: score and breakdown properties *)

\* the payload with its fences removed, trimmed
GdClean == GdTrim(StripFences(gdDoc))
\* neither the first parse nor the parse after the repair gives an object
GdUnusable ==
    LET first == JSONparse(GdClean)
        second == JSONparse(Repair(GdClean))
    IN  IF first.ok THEN first.value = "null" ELSE (~second.ok \/ second.value = "null")

----------------------------------------------------------------------------
(* Report page: properties of the source of the view *)

\* C16: a live report takes precedence; without one the view is built from the
\* cache entry of the same session id when that entry exists; an unreadable or
\* corrupt entry counts as absent, and no render raises.
C16_CacheFallback ==
    rpView.state /= "pending" =>
        /\ rpView.state = "rendered"
        /\ rpQuery = "data" => rpView = Rendered("live", rpId)
        /\ (rpQuery /= "data" /\ rpId /= NoId /\ rpCache[rpId].kind = "valid")
               => rpView = Rendered("cache", rpCache[rpId].name)
        /\ (rpQuery /= "data" /\ rpId /= NoId /\ rpCache[rpId].kind \in RpBrokenKinds)
               => rpView.source = "mock"

----------------------------------------------------------------------------
(* FloatingChatbot: properties *)

\* contents that tell the user that the request failed
FailureTexts == {"commonError"}

\* C17: a transport failure of the chat request appends exactly one assistant
\* message, and that message describes the failure.
C17_FailureDescribed ==
    [][(\E f \in FcFailures : FcSendFails(f)) =>
          /\ Len(fcMessages') = Len(fcMessages) + 1
          /\ SubSeq(fcMessages', 1, Len(fcMessages)) = fcMessages
          /\ fcMessages'[Len(fcMessages')].role = "assistant"
          /\ fcMessages'[Len(fcMessages')].content \in FailureTexts]_vars

\* contents of the messages handleSend appends
SentContents == {"typed", "reply", "commonError", "smartReply"}

\* C20: a message appended by handleSend stays in the list, at its place, in
\* every later step.
C20_SentMessagesKept ==
    [][\A k \in 1..Len(fcMessages) :
          fcMessages[k].content \in SentContents =>
              (k <= Len(fcMessages') /\ fcMessages'[k] = fcMessages[k])]_vars

----------------------------------------------------------------------------
(* Report page: locale resolution properties *)

\* C18: for a non-empty locale map the synthesis text is the entry of the
\* requested locale when the map has it, and otherwise an entry of the map (for
\* the keys {de, it} and the request fr, the entry of de); with an empty map it
\* is the legacy field, or the empty string when that is absent too.
C18_LocaleResolution ==
    lcOut.state = "returned" =>
        /\ lcReq \in lcMap => lcOut.value = LocaleText(lcReq)
        /\ (lcReq \notin lcMap /\ lcMap /= {})
               => \E l \in lcMap : lcOut.value = LocaleText(l)
        /\ (lcMap = {"de", "it"} /\ lcReq = "fr") => lcOut.value = LocaleText("de")
        /\ (lcMap = {} /\ lcLegacy) => lcOut.value = LegacyText
        /\ (lcMap = {} /\ ~lcLegacy /\ ~lcResponse) => lcOut.value = <<>>

----------------------------------------------------------------------------
(* PrefaceSanitizer: properties *)

\* C19: sanitizing the sanitized document gives the text sanitizing gave, and a
\* document without a recognized heading is returned unchanged.
C19_SanitizerIdempotent ==
    /\ psTwice.done => psTwice.text = psOnce.text
    /\ (psOnce.done /\ \A k \in 1..Len(psDoc) : ~IsHeadingLine(psDoc[k]))
           => psOnce.text = JoinLines(psDoc)

\* a document with two boilerplate lines and a text line before its first
\* heading was sanitized twice, and the first pass changed it
C19_Witness ==
    /\ psTwice.done
    /\ psDoc = <<<<"t", "r">>, <<"x">>, <<"T", "r">>, <<"#", "#", " ", "T">>>>
    /\ psOnce.text = <<"x", "\n", "#", "#", " ", "T">>

----------------------------------------------------------------------------
(* Chat page rendered through ChatContainer: scroll while streaming *)

\* the roles of the list the page passes to ChatContainer
RolesOf(msgs) == [k \in 1..Len(msgs) |-> msgs[k].role]

\* C21: while a reply is streaming, every change of the partial message makes
\* the effect of useChatScroll bring the in-progress assistant element to the
\* top of the viewport, and not scroll the container to its end.
C21_StreamingScrollsToReply ==
    [][(currentMessage' /= currentMessage /\ ~currentMessage'.null
            /\ currentMessage'.text /= <<>>)
          => scrollDecision(RolesOf(messages'), currentMessage') = ScrollIntoView]_vars

----------------------------------------------------------------------------
(* Chat page: one user and one assistant message per exchange *)

Ended(c) == c.pc \in {"done", "failed"}

Alternates(msgs) ==
    \A k \in 1..Len(msgs) : msgs[k].role = (IF k % 2 = 1 THEN "user" ELSE "assistant")

\* C22: a handleSend call that passes its guard appends exactly one user message,
\* the trimmed input, before the request is issued; the step that ends an
\* exchange appends exactly one assistant message, the full reply on success and
\* an error message on failure; no other step changes the list; so the list
\* alternates user, assistant, with one message per started and per ended
\* exchange.
C22_OneUserOneAssistant ==
    [][/\ Len(calls') > Len(calls)
            => /\ messages' = Append(messages, Msg("user", Trim(input)))
               /\ calls'[Len(calls')].pc = "fetching"
       /\ \A i \in 1..Len(calls) :
            (~Ended(calls[i]) /\ Ended(calls'[i]))
               => /\ Len(messages') = Len(messages) + 1
                  /\ SubSeq(messages', 1, Len(messages)) = messages
                  /\ messages'[Len(messages')].role = "assistant"
                  /\ calls'[i].pc = "done"
                        => messages'[Len(messages')].content = calls[i].acc
                  /\ calls'[i].pc = "failed" => IsErrorMsg(messages'[Len(messages')])
       /\ (Len(calls') = Len(calls)
             /\ \A i \in 1..Len(calls) : Ended(calls[i]) = Ended(calls'[i]))
            => messages' = messages
       /\ Alternates(messages')
       /\ Len(messages') = Len(calls') + Cardinality({i \in 1..Len(calls') : Ended(calls'[i])})
      ]_vars

\* two exchanges have ended, one with a reply that was streamed and one with an
\* error, and the list holds their four messages
C22_Witness ==
    /\ Len(calls) = 2
    /\ calls[1].pc = "done" /\ calls[1].acc /= <<>>
    /\ calls[2].pc = "failed"
    /\ Len(messages) = 4
    /\ messages[2] = Msg("assistant", calls[1].acc)
    /\ IsErrorMsg(messages[4])

----------------------------------------------------------------------------
(* Chat page: send attempts the guard turns away *)

\* C28: a send attempt made with blank input, or while an exchange is in flight,
\* changes nothing: the message list, the input, the partial message and
\* sendingMessage stay as they are and no request is issued.
C28_RejectedSendChangesNothing ==
    [][((Trim(input) = <<>> \/ \E i \in 1..Len(calls) : InFlight(calls[i]))
           /\ (SendStart \/ SendRejected))
          => UNCHANGED <<messages, input, currentMessage, sendingMessage, calls>>]_vars

\* a send attempt is turned away while the reply of the second exchange is
\* streaming
C28_Witness ==
    /\ Len(calls) = 2 /\ calls[2].pc = "reading" /\ calls[2].acc /= <<>>
    /\ Len(messages) = 3
    /\ sendingMessage
    /\ ENABLED SendRejected

----------------------------------------------------------------------------
(* docs/web chat handlers: properties *)

\* C23: in the committed list each user message is followed by exactly one
\* system message before the next user message.
C23_OneSystemPerUser ==
    \A k \in 1..Len(dw.messages) : \A j \in (k + 1)..Len(dw.messages) :
        (/\ dw.messages[k].role = "user"
         /\ dw.messages[j].role = "user"
         /\ \A m \in (k + 1)..(j - 1) : dw.messages[m].role /= "user")
            => /\ j = k + 2
               /\ dw.messages[k + 1].role = "system"

DwSendInFlight == dw.send \in {"fetching", "reading"}

\* C29: a validation request and a chat exchange are never in flight at the
\* same time, and once a message has been sent or a validation has finished the
\* Validate button is not offered again.
C29_ValidateAndSendExclusive ==
    /\ ~(dw.validate = "fetching" /\ DwSendInFlight)
    /\ (dw.sends > 0 \/ \E k \in 1..Len(dw.messages) :
                                 dw.messages[k] = Msg("user", <<ValidateLabel>>))
          => ~ValidateOffered

\* in UploadForm a validation has finished and the reply to a message sent
\* after it is streaming
C29_Witness ==
    /\ dwHandler = "UploadForm"
    /\ Len(dw.messages) = 4
    /\ dw.messages[2] = Msg("user", <<ValidateLabel>>)
    /\ dw.messages[4].role = "user"
    /\ dw.send = "reading" /\ ~dw.currentMessage.null
    /\ ~dw.validating /\ ~ValidateOffered

----------------------------------------------------------------------------
(* Upload page: properties *)

\* C24: when handleStart has returned, the progress timer it started has been
\* cancelled, so no tick changes uploadProgress and uploadProgress is 0 while no
\* upload is in flight.
C24_TimerCancelled ==
    /\ up.pc /= "uploading" => up.timers = 0
    /\ up.pc = "idle" => up.progress = 0

\* C25: a flow that ends by navigating to /company/{id} leaves lastSessionId
\* equal to that id.
C25_LastSessionIsNavigated ==
    [][(up'.route /= up.route) => lastSessionId' = up'.route]_vars

\* C26: a message sent from the chatbot is posted to the session whose history
\* the chatbot displays.
C26_PostedToDisplayedSession ==
    [][(Len(cb'.posted) > Len(cb.posted) /\ cb.shown /= NoId)
          => cb'.posted[Len(cb'.posted)] = cb.shown]_vars

----------------------------------------------------------------------------
(* Dashboard: properties *)

\* C27: when the risk-trends request has failed, the stats and the companies
\* sorted by score descending, as obtained from the dashboard request, are still
\* in place and only the trend data is absent; loading is false once the load
\* has ended.
C27_TrendFailureKeepsDashboard ==
    /\ db.pc = "failed"
          => /\ db.stats = statsOf(db.data)
             /\ db.companies = companiesOf(db.data)
             /\ db.trend = Absent
    /\ db.pc \in {"done", "failed"} => db.loading = FALSE

====
